---- MODULE Spec2Model ----
(***************************************************************************)
(* Production-schedule core of TopShelfExhibits/manage:                    *)
(*   - date inference (_calculateShipDate, _calculateReturnDate,           *)
(*     getRowDate),                                                        *)
(*   - the overlap filter (ProductionUtils.getOverlappingShows) with its   *)
(*     asynchronous filter-date resolution,                                *)
(*   - the identifier resolver (ProductionUtils.computeIdentifier).        *)
(*                                                                         *)
(* Instants are JavaScript Date values, counted in ticks since 1970-01-01  *)
(* (TicksPerDay ticks to the 86400000 ms of a day); the local time zone    *)
(* is taken to have no daylight-saving shifts.  Text is a sequence of      *)
(* one-character strings.                                                  *)
(***************************************************************************)
EXTENDS Integers, Sequences, FiniteSets, TLC

VARIABLES
    table,      \* rows of the ProductionSchedule tab of the data source
    refs,       \* the Clients and Shows reference tabs of the data source
    now,        \* the instant `new Date()` yields
    pc,         \* per invocation: position in getOverlappingShows
    args,       \* per invocation: [parameters, searchParams]
    data,       \* per invocation: the rows loaded at line 57 (after line 62)
    fres,       \* per invocation, per filter: state of resolveFilterValue
    result,     \* per invocation: returned array
    nIdent,     \* per invocation: computeIdentifier calls made
    nFetch,     \* per invocation: reference-tab fetches made
    row,        \* the row handed to the date helpers
    out,        \* what the last date-helper call returned
    identifierCall, \* a computeIdentifier invocation made on its own
    showDetails,    \* a getShowDetails invocation
    search,         \* the useSearch composable: searchValue and its last call
    urlSync,        \* the useSearch composable: URL synchronisation
    cards,          \* CardsComponent: items, hideCardsOnSearch, visibleCards
    schedule        \* ScheduleContent: filter and the last selection

vars == <<table, refs, now, pc, args, data, fres, result, nIdent, nFetch, row, out,
          identifierCall, showDetails, search, urlSync, cards, schedule>>

-----------------------------------------------------------------------------
(* Bounds of the model *)

TicksPerDay == 2

(* Program constants *)

ShipLeadFromStart == 14
ShipLeadFromEnd == 21
ReturnAfterEnd == 10
ReturnAfterStart == 30
ReturnAfterShip == 30
ShowAfterShip == 10

\* the invocations of getOverlappingShows in flight
Calls == {1, 2}

\* null / undefined
Null == -1

\* a row without a Year cell
NoYear == 0

-----------------------------------------------------------------------------
(* JavaScript Date arithmetic (proleptic Gregorian calendar) *)

\* Date(y, m, d) at local midnight, in days since 1970-01-01
DaysFromCivil(y, m, d) ==
    LET yy  == IF m <= 2 THEN y - 1 ELSE y
        era == yy \div 400
        yoe == yy - era * 400
        mp  == IF m > 2 THEN m - 3 ELSE m + 9
        doy == (153 * mp + 2) \div 5 + d - 1
        doe == yoe * 365 + yoe \div 4 - yoe \div 100 + doy
    IN  era * 146097 + doe - 719468

\* [y, m, d] of day doy of the year that starts on March 1 of year yM
CivilOfMarchYear(yM, doy) ==
    LET mp == (5 * doy + 2) \div 153
    IN  [y |-> yM + (IF mp < 10 THEN 0 ELSE 1),
         m |-> IF mp < 10 THEN mp + 3 ELSE mp - 9,
         d |-> doy - (153 * mp + 2) \div 5 + 1]

CivilOfYearOfEra(era, doe, yoe) ==
    CivilOfMarchYear(yoe + era * 400, doe - (365 * yoe + yoe \div 4 - yoe \div 100))

CivilOfDayOfEra(era, doe) ==
    CivilOfYearOfEra(era, doe,
        (doe - doe \div 1460 + doe \div 36524 - doe \div 146096) \div 365)

\* [y, m, d] of a day number
CivilFromDays(z) ==
    CivilOfDayOfEra((z + 719468) \div 146097, (z + 719468) % 146097)

\* new Date(y, m-1, d): midnight of a calendar day
MkDate(y, m, d) == DaysFromCivil(y, m, d) * TicksPerDay

\* new Date(t.getTime() + n * 86400000)
AddDays(t, n) == t + n * TicksPerDay

\* Date.prototype.getFullYear
GetFullYear(t) == CivilFromDays(t \div TicksPerDay).y

\* the instant of the calendar day c.m/c.d of year y, at time of day tod
CivilInYear(c, y, tod) == DaysFromCivil(y, c.m, c.d) * TicksPerDay + tod

\* Date.prototype.setFullYear(y): same month, day and time of day in year y;
\* Feb 29 in a common year overflows to Mar 1
SetFullYear(t, y) == CivilInYear(CivilFromDays(t \div TicksPerDay), y, t % TicksPerDay)

-----------------------------------------------------------------------------
(* Schedule rows *)

\* A date cell of the sheet: blank, or text naming a month and a day, with or
\* without a year of its own (y = NoYear)
Blank == [kind |-> "blank", m |-> 0, d |-> 0, y |-> NoYear]

DateCell(m, d, y) == [kind |-> "date", m |-> m, d |-> d, y |-> y]

\* a cell of white space only, and a cell of text that names no date
SpaceCell == [kind |-> "space", m |-> 0, d |-> 0, y |-> NoYear]
TextCell == [kind |-> "text", m |-> 0, d |-> 0, y |-> NoYear]

\* parseDate(value, forceLocal, year) of ../index.js: null for a cell that holds
\* no date; otherwise the local midnight of the day the text names, the
\* reference year standing in for a year the text does not give
parseDate(value, forceLocal, year) ==
    IF value.kind # "date" THEN Null
    ELSE IF value.y # NoYear THEN MkDate(value.y, value.m, value.d)
    ELSE IF year # NoYear THEN MkDate(year, value.m, value.d)
    ELSE Null

\* an Invalid Date object: what setFullYear(NaN) leaves behind
InvalidDate == -2

\* lines 366-369, 386-389: only adjust the year if it keeps ship before the show
KeepBeforeShow(ship, shipWithYearAdjusted, showDate) ==
    IF shipWithYearAdjusted # InvalidDate /\ shipWithYearAdjusted < showDate
    THEN shipWithYearAdjusted
    ELSE ship

\* ShipYearAdjusted forcing the row's year without the ordering check
ShipYearForcedUnchecked(ship, showDate, year) ==
    IF GetFullYear(ship) # year /\ year # NoYear THEN SetFullYear(ship, year) ELSE ship

\* lines 362-370, 382-390
ShipYearAdjusted(ship, showDate, year) ==
    IF GetFullYear(ship) # year
    THEN KeepBeforeShow(ship,
                        IF year = NoYear THEN InvalidDate ELSE SetFullYear(ship, year),
                        showDate)
    ELSE ship

\* ShipDateFrom preferring the date derived from S. Start to the Ship cell
ShipDateFromShowFirst(ship, sStart, sEnd, year) ==
    IF sStart # Null
    THEN ShipYearAdjusted(AddDays(sStart, 0 - ShipLeadFromStart), sStart, year)
    ELSE IF ship # Null THEN ship
    ELSE IF sEnd # Null
    THEN ShipYearAdjusted(AddDays(sEnd, 0 - ShipLeadFromEnd), sEnd, year)
    ELSE Null

\* lines 353-395, given what parseDate made of Ship, S. Start and S. End
ShipDateFrom(ship, sStart, sEnd, year) ==
    IF ship # Null THEN ship
    ELSE IF sStart # Null
    THEN ShipYearAdjusted(AddDays(sStart, 0 - ShipLeadFromStart), sStart, year)
    ELSE IF sEnd # Null
    THEN ShipYearAdjusted(AddDays(sEnd, 0 - ShipLeadFromEnd), sEnd, year)
    ELSE Null

_calculateShipDate(r) ==
    ShipDateFrom(parseDate(r.Ship, TRUE, r.Year), parseDate(r.SStart, TRUE, r.Year),
                 parseDate(r.SEnd, TRUE, r.Year), r.Year)

\* ReturnYearForced leaving the derived date in the year it fell in
ReturnYearKept(ret, year) == ret

\* lines 417, 425, 432: if (ret.getFullYear() != year) ret.setFullYear(Number(year))
ReturnYearForced(ret, year) ==
    IF GetFullYear(ret) # year
    THEN IF year = NoYear THEN InvalidDate ELSE SetFullYear(ret, year)
    ELSE ret

\* lines 411-436, given what parseDate made of Expected Return Date, S. End
\* and S. Start
ReturnDateFrom(ret, sEnd, sStart, shipDate, year) ==
    IF ret # Null THEN ret
    ELSE IF sEnd # Null
    THEN ReturnYearForced(AddDays(sEnd, ReturnAfterEnd), year)
    ELSE IF sStart # Null
    THEN ReturnYearForced(AddDays(sStart, ReturnAfterStart), year)
    ELSE IF shipDate # Null
    THEN ReturnYearForced(AddDays(shipDate, ReturnAfterShip), year)
    ELSE Null

_calculateReturnDate(r, shipDate) ==
    ReturnDateFrom(parseDate(r.ExpReturn, TRUE, r.Year), parseDate(r.SEnd, TRUE, r.Year),
                   parseDate(r.SStart, TRUE, r.Year), shipDate, r.Year)

\* ShowDateFrom taking the ship date itself for the show date
ShowDateIsShipDate(showDate, ship) ==
    IF showDate # Null THEN showDate ELSE ship

\* lines 86-93: the show date estimated from the ship date
ShowDateFrom(showDate, ship) ==
    IF showDate # Null THEN showDate
    ELSE IF ship # Null THEN AddDays(ship, ShowAfterShip)
    ELSE Null

getRowDate(r, column) ==
    IF column = "Ship" THEN _calculateShipDate(r)
    ELSE IF column = "Return" THEN _calculateReturnDate(r, _calculateShipDate(r))
    ELSE IF column = "Show Date"
    THEN ShowDateFrom(parseDate(r.SStart, TRUE, r.Year), _calculateShipDate(r))
    ELSE Null

-----------------------------------------------------------------------------
(* Text: a sequence of one-character strings *)

UpperLetters == <<"A","B","C","D","E","F","G","H","I","J","K","L","M",
                  "N","O","P","Q","R","S","T","U","V","W","X","Y","Z">>
LowerLetters == <<"a","b","c","d","e","f","g","h","i","j","k","l","m",
                  "n","o","p","q","r","s","t","u","v","w","x","y","z">>

\* String.prototype.toLowerCase
toLowerCase(s) ==
    [i \in 1..Len(s) |->
        IF \E k \in 1..Len(UpperLetters) : UpperLetters[k] = s[i]
        THEN LowerLetters[CHOOSE k \in 1..Len(UpperLetters) : UpperLetters[k] = s[i]]
        ELSE s[i]]

\* String.prototype.includes
includes(s, word) ==
    \E i \in 0..(Len(s) - Len(word)) : SubSeq(s, i + 1, i + Len(word)) = word

RECURSIVE trimStart(_)
trimStart(s) == IF s # <<>> /\ Head(s) = " " THEN trimStart(Tail(s)) ELSE s

RECURSIVE trimEnd(_)
trimEnd(s) ==
    IF s # <<>> /\ s[Len(s)] = " " THEN trimEnd(SubSeq(s, 1, Len(s) - 1)) ELSE s

\* String.prototype.trim
trim(s) == trimEnd(trimStart(s))

Digits == <<"0","1","2","3","4","5","6","7","8","9">>

\* String(n) of a non-negative integer
RECURSIVE NumberText(_)
NumberText(n) ==
    IF n < 10 THEN <<Digits[n + 1]>>
    ELSE NumberText(n \div 10) \o <<Digits[(n % 10) + 1]>>

-----------------------------------------------------------------------------
(* guessShipDate *)

\* What guessShipDate returns: the Ship cell itself, a text, or null
GuessCell(cell) == [kind |-> "cell", cell |-> cell, text |-> <<>>]
GuessText(text) == [kind |-> "text", cell |-> Blank, text |-> text]
GuessNull == [kind |-> "null", cell |-> Blank, text |-> <<>>]
GuessThrown == [kind |-> "thrown", cell |-> Blank, text |-> <<>>]

\* String(n).padStart(2, '0')
PadStart2(n) == IF n < 10 THEN <<"0">> \o NumberText(n) ELSE NumberText(n)

\* lines 321-325: `${month}/${day}/${year}` of the local calendar day
FormatCivil(c) ==
    PadStart2(c.m) \o <<"/">> \o PadStart2(c.d) \o <<"/">> \o NumberText(c.y)

\* lines 319-328
FormatGuess(guessedDate) ==
    IF guessedDate = Null THEN GuessNull
    ELSE GuessText(FormatCivil(CivilFromDays(guessedDate \div TicksPerDay)))

\* ShipIsSet without the trim
ShipIsSetUntrimmed(ship) == ship.kind # "blank"

\* line 311: row.Ship && row.Ship.toString().trim() !== ''
ShipIsSet(ship) == ship.kind # "blank" /\ ship.kind # "space"

\* lines 311-328: the body of the try block; reading row.Ship of a row that is
\* null or undefined throws
GuessTried(r, isObject) ==
    IF ~isObject THEN GuessThrown
    ELSE IF ShipIsSet(r.Ship) THEN GuessCell(r.Ship)
    ELSE FormatGuess(_calculateShipDate(r))

\* lines 327-330: the catch block
GuessCaught(tried) == IF tried.kind = "thrown" THEN GuessNull ELSE tried

guessShipDate(r, isObject) == GuessCaught(GuessTried(r, isObject))

-----------------------------------------------------------------------------
(* IdentifierResolver *)

\* GetTopFuzzyMatch(query, names, abbrs, threshold) of ../index.js: the
\* canonical name of the first reference entry whose name or abbreviation is
\* the query; throws when no entry is acceptable
GetTopFuzzyMatch(query, names, abbrs) ==
    LET hits == {i \in 1..Len(names) :
                    query # <<>> /\ (names[i] = query \/ abbrs[i] = query)}
    IN  IF hits = {} THEN [threw |-> TRUE, match |-> <<>>]
        ELSE [threw |-> FALSE,
              match |-> names[CHOOSE i \in hits : \A j \in hits : i <= j]]

computeIdentifierReferenceData(clientsData, showsData) ==
    [clients |-> [names |-> [i \in 1..Len(clientsData) |-> clientsData[i].name],
                  abbrs |-> [i \in 1..Len(clientsData) |-> clientsData[i].abbr]],
     shows   |-> [names |-> [i \in 1..Len(showsData) |-> showsData[i].name],
                  abbrs |-> [i \in 1..Len(showsData) |-> showsData[i].abbr]]]

\* BlankShowName without the trim
BlankShowNameUntrimmed(showName) == showName = <<>>

\* line 208: !showName || !showName.trim()
BlankShowName(showName) == showName = <<>> \/ trim(showName) = <<>>

\* composeIdentifier with catch blocks that leave the match empty
composeIdentifierNoFallback(referenceData, showName, clientName, year) ==
    LET c == GetTopFuzzyMatch(clientName, referenceData.clients.names,
                              referenceData.clients.abbrs)
        s == GetTopFuzzyMatch(showName, referenceData.shows.names,
                              referenceData.shows.abbrs)
        yearText == IF year = NoYear THEN <<>> ELSE NumberText(year)
    IN  trim(c.match \o <<" ">> \o yearText \o <<" ">> \o s.match)

\* lines 215-241, given the reference data fetched at line 213
composeIdentifier(referenceData, showName, clientName, year) ==
    LET c == GetTopFuzzyMatch(clientName, referenceData.clients.names,
                              referenceData.clients.abbrs)
        clientMatch == IF c.threw THEN clientName ELSE c.match
        s == GetTopFuzzyMatch(showName, referenceData.shows.names,
                              referenceData.shows.abbrs)
        showMatch == IF s.threw THEN showName ELSE s.match
        yearText == IF year = NoYear THEN <<>> ELSE NumberText(year)
    IN  trim(clientMatch \o <<" ">> \o yearText \o <<" ">> \o showMatch)

computeIdentifier(referenceData, showName, clientName, year) ==
    IF BlankShowName(showName) THEN <<>>
    ELSE composeIdentifier(referenceData, showName, clientName, year)

-----------------------------------------------------------------------------
(* OverlapFilter: the synchronous pieces of getOverlappingShows *)

\* Filter values: a number, a YYYY-MM-DD string, any other string, or a value
\* that is neither a number nor a string
NumberValue(n) == [kind |-> "number", n |-> n, y |-> 0, m |-> 0, d |-> 0, text |-> <<>>]
IsoDateValue(y, m, d) == [kind |-> "isodate", n |-> 0, y |-> y, m |-> m, d |-> d, text |-> <<>>]
IdentifierValue(t) == [kind |-> "string", n |-> 0, y |-> 0, m |-> 0, d |-> 0, text |-> t]
OtherValue == [kind |-> "other", n |-> 0, y |-> 0, m |-> 0, d |-> 0, text |-> <<>>]

\* searchFilter(data, searchParams) of ../index.js: keeps the rows in which, for
\* every column of searchParams, one of the values is a case-insensitive
\* substring of the row's cell
searchFilter(dat, searchParams) ==
    SelectSeq(dat, LAMBDA r :
        \A k \in 1..Len(searchParams) :
            \E v \in 1..Len(searchParams[k].values) :
                includes(toLowerCase(r[searchParams[k].column]),
                         toLowerCase(searchParams[k].values[v])))

\* LoadedData kept in a cache that every invocation shares
LoadedDataShared(tbl, a) ==
    IF \E d \in Calls : pc[d] \in {"resolving", "done"}
    THEN data[CHOOSE d \in Calls : pc[d] \in {"resolving", "done"}]
    ELSE IF a.searchParams.isNull THEN tbl ELSE searchFilter(tbl, a.searchParams.entries)

\* lines 57-63: the rows this invocation works on
LoadedData(tbl, a) ==
    IF a.searchParams.isNull THEN tbl ELSE searchFilter(tbl, a.searchParams.entries)

\* NoDateFilters without the test for an empty array
NoDateFiltersLengthUnchecked(parameters) ==
    parameters.isNull \/ ~parameters.hasDateFilters

\* line 66: !parameters || !parameters.dateFilters || parameters.dateFilters.length === 0
NoDateFilters(parameters) ==
    \/ parameters.isNull
    \/ ~parameters.hasDateFilters
    \/ Len(parameters.dateFilters) = 0

\* line 119: showName && client && year
HasIdentifierFields(r) == r.Show # <<>> /\ r.Client # <<>> /\ r.Year # NoYear

\* IdentifierRowDate without the overlap adjustment of lines 125-130
IdentifierRowDateSameColumn(filter, r) == getRowDate(r, filter.column)

\* lines 125-132: the date an identifier filter takes from the matching row
IdentifierRowDate(filter, r) ==
    IF filter.column = "Ship" /\ filter.type = "before"
    THEN _calculateReturnDate(r, _calculateShipDate(r))
    ELSE IF filter.column = "Return" /\ filter.type = "after"
    THEN _calculateShipDate(r)
    ELSE getRowDate(r, filter.column)

\* State of one resolveFilterValue call: returned (stage "done", with its date),
\* or suspended inside the computeIdentifier call for row idx: before the
\* Clients fetch, before the Shows fetch, or on the '' of a blank show name
Resolved(date) == [stage |-> "done", idx |-> 0, date |-> date, clientsData |-> <<>>]

\* lines 115-137: the for loop from row i on, up to its next await or its return
ScanFrom(dat, i) ==
    LET rest == {j \in i..Len(dat) : HasIdentifierFields(dat[j])}
    IN  IF rest = {} THEN Resolved(Null)
        ELSE LET j == CHOOSE k \in rest : \A l \in rest : k <= l
             IN  [stage |-> IF BlankShowName(dat[j].Show) THEN "blank" ELSE "clients",
                  idx |-> j, date |-> Null, clientsData |-> <<>>]

\* lines 100-141: resolveFilterValue up to its first await or its return
resolveFilterValue(filter, dat, today) ==
    IF filter.value.kind = "number" THEN Resolved(AddDays(today, filter.value.n))
    ELSE IF filter.value.kind = "isodate"
    THEN Resolved(MkDate(filter.value.y, filter.value.m, filter.value.d))
    ELSE IF filter.value.kind = "string" THEN ScanFrom(dat, 1)
    ELSE Resolved(Null)

\* lines 121-134: resolveFilterValue resumed with the identifier of row idx
IdentifierComputed(filter, dat, idx, computedIdentifier) ==
    IF computedIdentifier = filter.value.text
    THEN Resolved(IdentifierRowDate(filter, dat[idx]))
    ELSE ScanFrom(dat, idx + 1)

\* AllResolved settling with the first filter date (Promise.race for Promise.all)
AnyResolved(fr) == \E i \in 1..Len(fr) : fr[i].stage = "done"

\* line 144: Promise.all has every filter date
AllResolved(fr) == \A i \in 1..Len(fr) : fr[i].stage = "done"

\* lines 147-160
YearsToCheck(filterDates) ==
    LET validDates == {i \in 1..Len(filterDates) : filterDates[i] # Null}
        years   == {GetFullYear(filterDates[i]) : i \in validDates}
        minYear == CHOOSE a \in years : \A b \in years : a <= b
        maxYear == CHOOSE a \in years : \A b \in years : b <= a
    IN  IF \E i \in validDates : filterDates[i] = InvalidDate THEN {}
        ELSE minYear..maxYear

\* CompareDates without its 'before' branch
CompareDatesBeforeIgnored(rowDate, filterDate, type) ==
    IF rowDate = InvalidDate \/ filterDate = InvalidDate THEN type # "after"
    ELSE IF type = "after" THEN rowDate >= filterDate
    ELSE TRUE

\* lines 183-189
CompareDates(rowDate, filterDate, type) ==
    IF rowDate = InvalidDate \/ filterDate = InvalidDate THEN type \notin {"after", "before"}
    ELSE IF type = "after" THEN rowDate >= filterDate
    ELSE IF type = "before" THEN rowDate <= filterDate
    ELSE TRUE

\* lines 172-189
DatesPass(rowDate, filterDate, type) ==
    /\ rowDate # Null
    /\ filterDate # Null
    /\ CompareDates(rowDate, filterDate, type)

\* lines 170-190: one filter applied to one row
PassesFilter(r, filter, filterDate) ==
    DatesPass(getRowDate(r, filter.column), filterDate, filter.type)

\* lines 165-167: the year optimization
InYearsToCheck(r, yearsToCheck) == r.Year # NoYear /\ r.Year \in yearsToCheck

\* lines 147-194
FilterRows(dat, dateFilters, filterDates) ==
    IF \A i \in 1..Len(filterDates) : filterDates[i] = Null THEN <<>>
    ELSE LET yearsToCheck == YearsToCheck(filterDates)
         IN  SelectSeq(dat, LAMBDA r :
                /\ InYearsToCheck(r, yearsToCheck)
                /\ \A i \in 1..Len(dateFilters) :
                       PassesFilter(r, dateFilters[i], filterDates[i]))

-----------------------------------------------------------------------------
(* Inputs *)

\* longest ProductionSchedule table and longest dateFilters array explored
MaxRows == 2
MaxFilters == 2

Row(show, client, year, ship, sStart, sEnd, expReturn) ==
    [Show |-> show, Client |-> client, Year |-> year, Ship |-> ship,
     SStart |-> sStart, SEnd |-> sEnd, ExpReturn |-> expReturn]

LM == <<"L","M">>
NG == <<"N","G">>
CE == <<"C","E">>
LM_2025_NG == <<"L","M"," ","2","0","2","5"," ","N","G">>
ZZ_2025_ZZ == <<"Z","Z"," ","2","0","2","5"," ","Z","Z">>

\* the Clients and Shows tabs
RefOptions ==
    {[clients |-> <<[name |-> LM, abbr |-> <<"L">>]>>,
      shows   |-> <<[name |-> NG, abbr |-> <<"N">>], [name |-> CE, abbr |-> <<>>]>>]}

\* rows the ProductionSchedule tab is built from
CatalogueRows ==
    { Row(NG, LM, 2025, Blank, DateCell(6, 15, NoYear), DateCell(6, 18, NoYear), Blank),
      Row(<<"N">>, <<"L">>, 2025, DateCell(7, 1, NoYear), Blank, Blank, DateCell(7, 20, NoYear)),
      Row(CE, LM, 2024, DateCell(5, 15, NoYear), Blank, Blank, Blank),
      Row(<<" ">>, LM, 2025, Blank, Blank, DateCell(12, 28, NoYear), Blank),
      Row(CE, LM, NoYear, DateCell(6, 1, 2025), Blank, Blank, Blank) }

\* the sequences of distinct elements of S, of length at most n
SeqsUpTo(S, n) ==
    {q \in UNION {[1..k -> S] : k \in 0..n} :
        \A i, j \in 1..Len(q) : q[i] = q[j] => i = j}

Tables == SeqsUpTo(CatalogueRows, MaxRows)

Filter(column, type, value) == [column |-> column, type |-> type, value |-> value]

CatalogueFilters ==
    { Filter("Ship", "before", IsoDateValue(2025, 6, 1)),
      Filter("Ship", "before", IdentifierValue(LM_2025_NG)),
      Filter("Show Date", "after", IdentifierValue(LM_2025_NG)),
      Filter("Return", "after", NumberValue(0 - 30)),
      Filter("Show Date", "before", IdentifierValue(ZZ_2025_ZZ)) }

NullParameters == [isNull |-> TRUE, hasDateFilters |-> FALSE, dateFilters |-> <<>>]
NoDateFiltersParameters == [isNull |-> FALSE, hasDateFilters |-> FALSE, dateFilters |-> <<>>]
DateFiltersParameters(fs) == [isNull |-> FALSE, hasDateFilters |-> TRUE, dateFilters |-> fs]

ParameterChoices ==
    {NullParameters, NoDateFiltersParameters} \cup
    {DateFiltersParameters(fs) : fs \in SeqsUpTo(CatalogueFilters, MaxFilters)}

NullSearch == [isNull |-> TRUE, entries |-> <<>>]
ClientSearch ==
    [isNull |-> FALSE,
     entries |-> <<[column |-> "Client", values |-> << <<"l","m">> >>, type |-> "contains"]>>]

SearchChoices == {NullSearch, ClientSearch}

\* `new Date()`: the afternoon of 2025-06-20
Nows == {MkDate(2025, 6, 20) + 1}

Columns == {"Ship", "Return", "Show Date", "Identifier"}

-----------------------------------------------------------------------------
(* State machine *)

\* A value that may be undefined: a cell of a row handed to matchesRow (no such
\* key), a field of a card, a parameter of a path
Undefined == [defined |-> FALSE, text |-> <<>>]
Defined(text) == [defined |-> TRUE, text |-> text]

NoArgs == [parameters |-> NullParameters, searchParams |-> NullSearch]
NoOutput == [column |-> "", value |-> Null]

\* no computeIdentifier call of its own, no getShowDetails call, an empty
\* search box (line 514)
NoIdentifierCall ==
    [pc |-> "idle", showName |-> <<>>, clientName |-> <<>>, year |-> NoYear,
     clientsData |-> <<>>, result |-> <<>>, nFetch |-> 0, nMatch |-> 0]
NoRow == Row(<<>>, <<>>, NoYear, Blank, Blank, Blank, Blank)
NoShowDetails ==
    [pc |-> "idle", identifier |-> <<>>, data |-> <<>>, idx |-> 0, clientsData |-> <<>>,
     found |-> FALSE, result |-> NoRow, nFetch |-> 0, nIdent |-> 0]
NoSearch ==
    [searchValue |-> <<>>, call |-> "none", text |-> <<>>, row |-> <<>>, columns |-> <<>>,
     result |-> <<>>]


\* a path of the application: the page and the searchTerm parameter the
\* container has on it; NoPath is a currentPath that is not set
Path(page, searchTerm) == [page |-> page, searchTerm |-> searchTerm]
NoPath == Path(0, Undefined)

\* lines 504-515: useSearch() with its default options, nothing called yet
NoUrlSync ==
    [syncWithUrl |-> FALSE, navigationRegistry |-> FALSE, containerPath |-> FALSE,
     appContext |-> FALSE, currentPath |-> NoPath, oldPath |-> NoPath,
     searchTerm |-> Undefined, _clearingSearch |-> FALSE, timers |-> 0,
     watcher |-> FALSE, last |-> "useSearch", calls |-> <<>>]

\* a CardsComponent without items; hideCardsOnSearch defaults to true (line 70)
NoCards == [isArray |-> TRUE, items |-> <<>>, hideCardsOnSearch |-> TRUE]

\* an array that may be missing: given is false for undefined and null
NoArray == [given |-> FALSE, list |-> <<>>]
Array(list) == [given |-> TRUE, list |-> list]

\* the argument of handleSearchSelected: null (or another falsy value), a
\* selection of type 'year', or any other object; a missing startDate or
\* endDate is ""
Selection(kind, dateFilters, startDate, endDate, textFilters) ==
    [kind |-> kind, dateFilters |-> dateFilters, startDate |-> startDate,
     endDate |-> endDate, textFilters |-> textFilters]
NoSelection == Selection("null", NoArray, "", "", NoArray)

\* ScheduleContent.data(), line 887: filter is null; nothing selected yet
NoFilter == [isNull |-> TRUE, hasDateFilters |-> FALSE, dateFilters |-> <<>>,
             hasSearchParams |-> FALSE, searchParams |-> <<>>]
NoSchedule == [filter |-> NoFilter, searchData |-> NoSelection, before |-> "none"]

QuietCalls ==
    /\ identifierCall = NoIdentifierCall
    /\ showDetails = NoShowDetails

Quiet ==
    /\ QuietCalls
    /\ search = NoSearch
    /\ urlSync = NoUrlSync
    /\ cards = NoCards
    /\ schedule = NoSchedule

IdleCalls ==
    /\ pc = [c \in Calls |-> "idle"]
    /\ args = [c \in Calls |-> NoArgs]
    /\ data = [c \in Calls |-> <<>>]
    /\ fres = [c \in Calls |-> <<>>]
    /\ result = [c \in Calls |-> <<>>]
    /\ nIdent = [c \in Calls |-> 0]
    /\ nFetch = [c \in Calls |-> 0]

Init ==
    /\ table \in Tables
    /\ refs \in RefOptions
    /\ now \in Nows
    /\ IdleCalls
    /\ Quiet
    /\ row = NoRow
    /\ out = NoOutput

Pending(fr) == Cardinality({i \in 1..Len(fr) : fr[i].stage # "done"})

\* lines 50-55: getOverlappingShows is called and awaits the header mapping
Call(c, parameters, searchParams) ==
    /\ pc[c] = "idle"
    /\ args' = [args EXCEPT ![c] = [parameters |-> parameters, searchParams |-> searchParams]]
    /\ pc' = [pc EXCEPT ![c] = "mapping"]
    /\ UNCHANGED <<table, refs, now, data, fres, result, nIdent, nFetch, row, out,
                 identifierCall, showDetails, search,
                   urlSync, cards, schedule>>

\* lines 55-57: the mapping arrives; the rows are requested
MappingLoaded(c) ==
    /\ pc[c] = "mapping"
    /\ pc' = [pc EXCEPT ![c] = "getData"]
    /\ UNCHANGED <<table, refs, now, args, data, fres, result, nIdent, nFetch, row, out,
                 identifierCall, showDetails, search,
                   urlSync, cards, schedule>>

\* lines 57-146: the rows arrive; without date filters they are returned, with
\* date filters every resolveFilterValue runs to its first await
DataLoaded(c) ==
    /\ pc[c] = "getData"
    /\ LET dat == LoadedData(table, args[c])
           dateFilters == args[c].parameters.dateFilters
           started == [i \in 1..Len(dateFilters) |->
                          resolveFilterValue(dateFilters[i], dat, now)]
       IN  /\ data' = [data EXCEPT ![c] = dat]
           /\ IF NoDateFilters(args[c].parameters)
              THEN /\ result' = [result EXCEPT ![c] = dat]
                   /\ pc' = [pc EXCEPT ![c] = "done"]
                   /\ UNCHANGED <<fres, nIdent>>
              ELSE /\ fres' = [fres EXCEPT ![c] = started]
                   /\ nIdent' = [nIdent EXCEPT ![c] = Pending(started)]
                   /\ pc' = [pc EXCEPT ![c] = "resolving"]
                   /\ UNCHANGED result
    /\ UNCHANGED <<table, refs, now, args, nFetch, row, out,
                 identifierCall, showDetails, search,
                   urlSync, cards, schedule>>

\* line 251: the Clients tab arrives inside computeIdentifierReferenceData
ClientsLoaded(c, i) ==
    /\ pc[c] = "resolving"
    /\ i \in 1..Len(fres[c])
    /\ fres[c][i].stage = "clients"
    /\ fres' = [fres EXCEPT ![c][i].stage = "shows", ![c][i].clientsData = refs.clients]
    /\ nFetch' = [nFetch EXCEPT ![c] = @ + 1]
    /\ UNCHANGED <<table, refs, now, pc, args, data, result, nIdent, row, out,
                 identifierCall, showDetails, search,
                   urlSync, cards, schedule>>

\* lines 121-137: resolveFilterValue of filter i goes on with the identifier
\* computed for the row it scans
Resume(c, i, computedIdentifier) ==
    /\ fres' = [fres EXCEPT ![c][i] =
                   IdentifierComputed(args[c].parameters.dateFilters[i], data[c],
                                      fres[c][i].idx, computedIdentifier)]
    /\ nIdent' = [nIdent EXCEPT ![c] = IF fres'[c][i].stage = "done" THEN @ ELSE @ + 1]

\* lines 252, 215-241, 121-137: the Shows tab arrives, the identifier of the
\* scanned row is composed and resolveFilterValue goes on with it
ShowsLoaded(c, i) ==
    /\ pc[c] = "resolving"
    /\ i \in 1..Len(fres[c])
    /\ fres[c][i].stage = "shows"
    /\ Resume(c, i,
              computeIdentifier(computeIdentifierReferenceData(fres[c][i].clientsData, refs.shows),
                                data[c][fres[c][i].idx].Show,
                                data[c][fres[c][i].idx].Client,
                                data[c][fres[c][i].idx].Year))
    /\ nFetch' = [nFetch EXCEPT ![c] = @ + 1]
    /\ UNCHANGED <<table, refs, now, pc, args, data, result, row, out,
                 identifierCall, showDetails, search,
                   urlSync, cards, schedule>>

\* lines 208-210, 121-137: computeIdentifier returned '' (line 209) for the blank
\* show name of the scanned row; no reference tab was fetched
BlankReturned(c, i) ==
    /\ pc[c] = "resolving"
    /\ i \in 1..Len(fres[c])
    /\ fres[c][i].stage = "blank"
    /\ Resume(c, i, <<>>)
    /\ UNCHANGED <<table, refs, now, pc, args, data, result, nFetch, row, out,
                 identifierCall, showDetails, search,
                   urlSync, cards, schedule>>

FilterDates(fr) == [i \in 1..Len(fr) |-> fr[i].date]

\* lines 147-194: Promise.all has settled; the rows are filtered and returned
FilterData(c) ==
    /\ pc[c] = "resolving"
    /\ AllResolved(fres[c])
    /\ result' = [result EXCEPT ![c] =
                     FilterRows(data[c], args[c].parameters.dateFilters, FilterDates(fres[c]))]
    /\ pc' = [pc EXCEPT ![c] = "done"]
    /\ UNCHANGED <<table, refs, now, args, data, fres, nIdent, nFetch, row, out,
                 identifierCall, showDetails, search,
                   urlSync, cards, schedule>>

\* one invocation, every input
Next ==
    \/ \E parameters \in ParameterChoices, searchParams \in SearchChoices :
           Call(1, parameters, searchParams)
    \/ MappingLoaded(1)
    \/ DataLoaded(1)
    \/ \E i \in 1..MaxFilters : ClientsLoaded(1, i)
    \/ \E i \in 1..MaxFilters : ShowsLoaded(1, i)
    \/ \E i \in 1..MaxFilters : BlankReturned(1, i)
    \/ FilterData(1)

Spec == Init /\ [][Next]_vars

-----------------------------------------------------------------------------
(* Two concurrent invocations *)

ConcurrentTables ==
    { << Row(NG, LM, 2025, Blank, DateCell(6, 15, NoYear), DateCell(6, 18, NoYear), Blank),
         Row(<<"N">>, <<"L">>, 2025, DateCell(7, 1, NoYear), Blank, Blank, DateCell(7, 20, NoYear)) >>,
      << Row(<<" ">>, LM, 2025, Blank, Blank, DateCell(12, 28, NoYear), Blank),
         Row(<<"N">>, <<"L">>, 2025, DateCell(7, 1, NoYear), Blank, Blank, DateCell(7, 20, NoYear)) >> }

ConcurrentParameters ==
    { NullParameters,
      DateFiltersParameters(<< Filter("Ship", "before", IdentifierValue(LM_2025_NG)) >>),
      DateFiltersParameters(<< Filter("Return", "after", IdentifierValue(LM_2025_NG)),
                               Filter("Ship", "before", IsoDateValue(2025, 6, 1)) >>),
      DateFiltersParameters(<< Filter("Show Date", "before", IdentifierValue(ZZ_2025_ZZ)),
                               Filter("Return", "after", NumberValue(0 - 30)) >>) }

InitConcurrent ==
    /\ table \in ConcurrentTables
    /\ refs \in RefOptions
    /\ now \in Nows
    /\ IdleCalls
    /\ Quiet
    /\ row = NoRow
    /\ out = NoOutput

NextConcurrent ==
    \/ \E c \in Calls, parameters \in ConcurrentParameters, searchParams \in SearchChoices :
           Call(c, parameters, searchParams)
    \/ \E c \in Calls : MappingLoaded(c)
    \/ \E c \in Calls : DataLoaded(c)
    \/ \E c \in Calls, i \in 1..MaxFilters : ClientsLoaded(c, i)
    \/ \E c \in Calls, i \in 1..MaxFilters : ShowsLoaded(c, i)
    \/ \E c \in Calls, i \in 1..MaxFilters : BlankReturned(c, i)
    \/ \E c \in Calls : FilterData(c)

SpecConcurrent == InitConcurrent /\ [][NextConcurrent]_vars

-----------------------------------------------------------------------------
(* computeIdentifier called on its own *)

ShowNames == {<<>>, <<" ">>, <<" ", " ">>, NG, <<"N">>, <<"X">>, <<" ", "N">>}
ClientNames == {<<>>, LM, <<"L">>, <<"Q">>}
Years == {NoYear, 2024, 2025}

InitIdentifier ==
    /\ table = <<>>
    /\ refs \in RefOptions
    /\ now \in Nows
    /\ IdleCalls
    /\ Quiet
    /\ row = NoRow
    /\ out = NoOutput

\* lines 206-213: computeIdentifier is called; a blank show name returns ''
\* (line 209), any other awaits the reference data
IdentifierRequested(showName, clientName, year) ==
    /\ identifierCall.pc = "idle"
    /\ identifierCall' =
           [identifierCall EXCEPT !.showName = showName, !.clientName = clientName,
                                  !.year = year,
                                  !.pc = IF BlankShowName(showName) THEN "done" ELSE "clients"]
    /\ UNCHANGED <<table, refs, now, pc, args, data, fres, result, nIdent, nFetch, row, out,
                   showDetails, search,
                   urlSync, cards, schedule>>

\* line 251: the Clients tab arrives
IdentifierClientsLoaded ==
    /\ identifierCall.pc = "clients"
    /\ identifierCall' = [identifierCall EXCEPT !.pc = "shows", !.clientsData = refs.clients,
                                                !.nFetch = @ + 1]
    /\ UNCHANGED <<table, refs, now, pc, args, data, fres, result, nIdent, nFetch, row, out,
                   showDetails, search,
                   urlSync, cards, schedule>>

\* lines 252, 215-241: the Shows tab arrives; both names are matched and the
\* identifier is composed
IdentifierShowsLoaded ==
    /\ identifierCall.pc = "shows"
    /\ identifierCall' =
           [identifierCall EXCEPT
               !.pc = "done", !.nFetch = @ + 1, !.nMatch = @ + 2,
               !.result = composeIdentifier(
                              computeIdentifierReferenceData(identifierCall.clientsData,
                                                             refs.shows),
                              identifierCall.showName, identifierCall.clientName,
                              identifierCall.year)]
    /\ UNCHANGED <<table, refs, now, pc, args, data, fres, result, nIdent, nFetch, row, out,
                   showDetails, search,
                   urlSync, cards, schedule>>

NextIdentifier ==
    \/ \E showName \in ShowNames, clientName \in ClientNames, year \in Years :
           IdentifierRequested(showName, clientName, year)
    \/ IdentifierClientsLoaded
    \/ IdentifierShowsLoaded

SpecIdentifier == InitIdentifier /\ [][NextIdentifier]_vars

-----------------------------------------------------------------------------
(* getShowDetails, and getOverlappingShows with one identifier filter *)

LM_2024_CE == LM \o <<" ">> \o NumberText(2024) \o <<" ">> \o CE
LM__CE == LM \o <<" ", " ">> \o CE

DetailIdentifiers == {<<>>, LM_2025_NG, ZZ_2025_ZZ, LM_2024_CE, LM__CE}

DetailParameters ==
    {DateFiltersParameters(<<Filter("Ship", "after", IdentifierValue(t))>>) :
        t \in DetailIdentifiers}

\* HasShowClientYear without the test of the year
HasShowClientOnly(r) == r.Show # <<>> /\ r.Client # <<>>

\* line 289: showName && client && yearVal
HasShowClientYear(r) == r.Show # <<>> /\ r.Client # <<>> /\ r.Year # NoYear

\* lines 284-297: the for loop from row i on, up to its next await or its return
DetailsScanned(sd, i) ==
    LET rest == {j \in i..Len(sd.data) : HasShowClientYear(sd.data[j])}
    IN  IF rest = {} THEN [sd EXCEPT !.pc = "done", !.found = FALSE, !.idx = 0]
        ELSE [sd EXCEPT !.idx = CHOOSE k \in rest : \A l \in rest : k <= l,
                        !.nIdent = @ + 1,
                        !.pc = IF BlankShowName(
                                      sd.data[CHOOSE k \in rest : \A l \in rest : k <= l].Show)
                               THEN "blank" ELSE "clients"]

\* lines 290-294: the loop resumed with the identifier of row idx
DetailsCompared(sd, computedIdentifier) ==
    IF computedIdentifier = sd.identifier
    THEN [sd EXCEPT !.pc = "done", !.found = TRUE, !.result = sd.data[sd.idx]]
    ELSE DetailsScanned(sd, sd.idx + 1)

\* lines 272-278: getShowDetails is called; without an identifier it returns
\* null, otherwise it awaits the header mapping
DetailsRequested(identifier) ==
    /\ showDetails.pc = "idle"
    /\ showDetails' = [showDetails EXCEPT !.identifier = identifier,
                                          !.pc = IF identifier = <<>> THEN "done" ELSE "mapping"]
    /\ UNCHANGED <<table, refs, now, pc, args, data, fres, result, nIdent, nFetch, row, out,
                   identifierCall, search,
                   urlSync, cards, schedule>>

\* lines 278-281: the mapping arrives; the rows are requested
DetailsMappingLoaded ==
    /\ showDetails.pc = "mapping"
    /\ showDetails' = [showDetails EXCEPT !.pc = "getData", !.nFetch = @ + 1]
    /\ UNCHANGED <<table, refs, now, pc, args, data, fres, result, nIdent, nFetch, row, out,
                   identifierCall, search,
                   urlSync, cards, schedule>>

\* lines 281-290: the rows arrive and the loop starts
DetailsDataLoaded ==
    /\ showDetails.pc = "getData"
    /\ showDetails' = DetailsScanned([showDetails EXCEPT !.data = table, !.nFetch = @ + 1], 1)
    /\ UNCHANGED <<table, refs, now, pc, args, data, fres, result, nIdent, nFetch, row, out,
                   identifierCall, search,
                   urlSync, cards, schedule>>

\* line 251: the Clients tab arrives inside computeIdentifierReferenceData
DetailsClientsLoaded ==
    /\ showDetails.pc = "clients"
    /\ showDetails' = [showDetails EXCEPT !.pc = "shows", !.clientsData = refs.clients,
                                          !.nFetch = @ + 1]
    /\ UNCHANGED <<table, refs, now, pc, args, data, fres, result, nIdent, nFetch, row, out,
                   identifierCall, search,
                   urlSync, cards, schedule>>

\* lines 252, 215-241, 290-294: the Shows tab arrives, the identifier of row
\* idx is composed and the loop goes on with it
DetailsShowsLoaded ==
    /\ showDetails.pc = "shows"
    /\ showDetails' =
           DetailsCompared([showDetails EXCEPT !.nFetch = @ + 1],
               computeIdentifier(
                   computeIdentifierReferenceData(showDetails.clientsData, refs.shows),
                   showDetails.data[showDetails.idx].Show,
                   showDetails.data[showDetails.idx].Client,
                   showDetails.data[showDetails.idx].Year))
    /\ UNCHANGED <<table, refs, now, pc, args, data, fres, result, nIdent, nFetch, row, out,
                   identifierCall, search,
                   urlSync, cards, schedule>>

\* lines 208-210, 290-294: computeIdentifier returned '' for the blank show
\* name of row idx
DetailsBlankReturned ==
    /\ showDetails.pc = "blank"
    /\ showDetails' = DetailsCompared(showDetails, <<>>)
    /\ UNCHANGED <<table, refs, now, pc, args, data, fres, result, nIdent, nFetch, row, out,
                   identifierCall, search,
                   urlSync, cards, schedule>>

InitDetails ==
    /\ table \in Tables
    /\ refs \in RefOptions
    /\ now \in Nows
    /\ IdleCalls
    /\ Quiet
    /\ row = NoRow
    /\ out = NoOutput

\* one getShowDetails invocation, or one getOverlappingShows invocation with an
\* identifier filter
NextDetails ==
    \/ \E identifier \in DetailIdentifiers : pc[1] = "idle" /\ DetailsRequested(identifier)
    \/ DetailsMappingLoaded
    \/ DetailsDataLoaded
    \/ DetailsClientsLoaded
    \/ DetailsShowsLoaded
    \/ DetailsBlankReturned
    \/ \E parameters \in DetailParameters :
           showDetails.pc = "idle" /\ Call(1, parameters, NullSearch)
    \/ MappingLoaded(1)
    \/ DataLoaded(1)
    \/ ClientsLoaded(1, 1)
    \/ ShowsLoaded(1, 1)
    \/ BlankReturned(1, 1)
    \/ FilterData(1)

SpecDetails == InitDetails /\ [][NextDetails]_vars

-----------------------------------------------------------------------------
(* The search composable: useSearch *)

\* String.prototype.substring(a, b), positions counted from 0
substring(s, a, b) == SubSeq(s, a + 1, b)

\* String.prototype.split(/\s+/) of a trimmed text: the pieces between runs of
\* white space; the empty text gives one empty piece
RECURSIVE splitFrom(_, _)
splitFrom(s, piece) ==
    IF s = <<>> THEN <<piece>>
    ELSE IF Head(s) = " "
    THEN (IF piece = <<>> THEN <<>> ELSE <<piece>>) \o splitFrom(Tail(s), <<>>)
    ELSE splitFrom(Tail(s), Append(piece, Head(s)))

\* lines 466-469
splitSearchTerms(searchTerm) ==
    IF searchTerm = <<>> THEN <<>>
    ELSE SelectSeq(splitFrom(trim(searchTerm), <<>>), LAMBDA word : Len(word) > 0)

\* lines 517-519 and 521-523
searchWords == splitSearchTerms(search.searchValue)
hasActiveSearch == Len(trim(search.searchValue)) > 0

\* String.prototype.replace(/ch/g, by)
RECURSIVE replaceAll(_, _, _)
replaceAll(text, ch, by) ==
    IF text = <<>> THEN <<>>
    ELSE (IF Head(text) = ch THEN by ELSE <<Head(text)>>) \o replaceAll(Tail(text), ch, by)

\* escapeHtml replacing & after < instead of first
escapeHtmlAmpersandLate(text) ==
    replaceAll(replaceAll(replaceAll(replaceAll(replaceAll(text,
        "<", <<"&", "l", "t", ";">>),
        "&", <<"&", "a", "m", "p", ";">>),
        ">", <<"&", "g", "t", ";">>),
        "\"", <<"&", "q", "u", "o", "t", ";">>),
        "'", <<"&", "#", "0", "3", "9", ";">>)

\* lines 476-483
escapeHtml(text) ==
    replaceAll(replaceAll(replaceAll(replaceAll(replaceAll(text,
        "&", <<"&", "a", "m", "p", ";">>),
        "<", <<"&", "l", "t", ";">>),
        ">", <<"&", "g", "t", ";">>),
        "\"", <<"&", "q", "u", "o", "t", ";">>),
        "'", <<"&", "#", "0", "3", "9", ";">>)

\* the positions from lastIndex on at which the regex of lines 542-543 (the
\* word taken literally, flags g and i) matches
Hits(word, stringValue, lastIndex) ==
    {i \in lastIndex..(Len(stringValue) - Len(word)) :
        toLowerCase(substring(stringValue, i, i + Len(word))) = toLowerCase(word)}

FirstHit(hits) == CHOOSE i \in hits : \A j \in hits : i <= j

\* lines 545-551: the exec loop; each search goes on where the last match ended
RECURSIVE execFrom(_, _, _)
MatchAt(word, stringValue, i) ==
    <<[start |-> i, end |-> i + Len(word),
       text |-> substring(stringValue, i, i + Len(word))]>>
    \o execFrom(word, stringValue, i + Len(word))

execFrom(word, stringValue, lastIndex) ==
    IF Hits(word, stringValue, lastIndex) = {} THEN <<>>
    ELSE MatchAt(word, stringValue, FirstHit(Hits(word, stringValue, lastIndex)))

\* lines 540-552: the matches of every word, word after word
RECURSIVE collectMatches(_, _)
collectMatches(words, stringValue) ==
    IF words = <<>> THEN <<>>
    ELSE execFrom(Head(words), stringValue, 0) \o collectMatches(Tail(words), stringValue)

\* line 555: Array.prototype.sort((a, b) => a.start - b.start), which is stable
InsertByStart(sorted, match) ==
    LET before == SelectSeq(sorted, LAMBDA m : m.start <= match.start)
        after  == SelectSeq(sorted, LAMBDA m : m.start > match.start)
    IN  before \o <<match>> \o after

RECURSIVE sortByStart(_, _)
sortByStart(sorted, matches) ==
    IF matches = <<>> THEN sorted
    ELSE sortByStart(InsertByStart(sorted, Head(matches)), Tail(matches))

Max(a, b) == IF a >= b THEN a ELSE b

\* lines 565-567: the last merged match takes the new one in
Extended(last, match, stringValue) ==
    [start |-> last.start, end |-> Max(last.end, match.end),
     text |-> substring(stringValue, last.start, Max(last.end, match.end))]

\* mergeStep merging only matches that overlap, not those that touch
mergeStepOverlapOnly(merged, match, stringValue) ==
    IF merged = <<>> THEN <<match>>
    ELSE IF match.start < merged[Len(merged)].end
    THEN [merged EXCEPT ![Len(merged)] = Extended(merged[Len(merged)], match, stringValue)]
    ELSE Append(merged, match)

\* lines 560-571: one turn of the merge loop
mergeStep(merged, match, stringValue) ==
    IF merged = <<>> THEN <<match>>
    ELSE IF match.start <= merged[Len(merged)].end
    THEN [merged EXCEPT ![Len(merged)] = Extended(merged[Len(merged)], match, stringValue)]
    ELSE Append(merged, match)

\* lines 558-572
RECURSIVE mergeMatches(_, _, _)
mergeMatches(merged, matches, stringValue) ==
    IF matches = <<>> THEN merged
    ELSE mergeMatches(mergeStep(merged, Head(matches), stringValue), Tail(matches), stringValue)

\* lines 539-572: the merged matches of the words in the text
mergedMatches(stringValue, words) ==
    mergeMatches(<<>>, sortByStart(<<>>, collectMatches(words, stringValue)), stringValue)

\* the highlight marker of line 585
MarkerOpen ==
    <<"<", "s", "p", "a", "n", " ", "c", "l", "a", "s", "s", "=", "\"", "s", "e", "a", "r",
      "c", "h", "-", "m", "a", "t", "c", "h", "\"", ">">>
MarkerClose == <<"<", "/", "s", "p", "a", "n", ">">>

\* lines 575-594: the text before each match escaped, each match escaped inside
\* a marker, the rest of the text escaped
RECURSIVE buildFrom(_, _, _)
buildFrom(merged, stringValue, lastIndex) ==
    IF merged = <<>> THEN escapeHtml(substring(stringValue, lastIndex, Len(stringValue)))
    ELSE escapeHtml(substring(stringValue, lastIndex, Head(merged).start))
         \o MarkerOpen \o escapeHtml(Head(merged).text) \o MarkerClose
         \o buildFrom(Tail(merged), stringValue, Head(merged).end)

\* lines 532-595
applyHighlighting(text, words) ==
    IF text = <<>> \/ Len(words) = 0 THEN escapeHtml(text)
    ELSE buildFrom(mergedMatches(text, words), text, 0)

\* lines 603-609
highlightRawText(text) ==
    IF ~hasActiveSearch \/ text = <<>> THEN escapeHtml(text)
    ELSE applyHighlighting(text, searchWords)

\* lines 650-660, without a formatter (formatValue = null, line 506)
highlightText(value) ==
    IF ~hasActiveSearch \/ value = <<>> THEN value
    ELSE applyHighlighting(value, searchWords)

\* lines 637-641 of highlightHtmlContent, given the plain text the browser's
\* DOM extracted from the content (lines 624-634)
highlightPlainText(plainText) ==
    replaceAll(applyHighlighting(plainText, searchWords), "\n", <<"<", "b", "r", ">">>)


\* String(value)
Stringified(value) ==
    IF value.defined THEN value.text ELSE <<"u", "n", "d", "e", "f", "i", "n", "e", "d">>

\* matchesRow testing for words instead of for an active search
matchesRowNullFirst(r, visibleColumns) ==
    IF r.isNull THEN FALSE
    ELSE \A w \in 1..Len(searchWords) : \E c \in 1..Len(visibleColumns) :
            includes(toLowerCase(Stringified(r.cells[visibleColumns[c]])), searchWords[w])

\* lines 688-701
matchesRow(r, visibleColumns) ==
    IF ~hasActiveSearch THEN TRUE
    ELSE IF r.isNull THEN FALSE
    ELSE \A w \in 1..Len(searchWords) : \E c \in 1..Len(visibleColumns) :
            includes(toLowerCase(Stringified(r.cells[visibleColumns[c]])), searchWords[w])

\* longest text highlighted and longest search value typed
MaxText == 3
MaxQuery == 3

TextsUpTo(S, n) == UNION {[1..k -> S] : k \in 0..n}

Texts == TextsUpTo({"a", "A", "<", "&"}, MaxText)
PlainTexts == TextsUpTo({"a", "<", "\n"}, MaxText)
SearchValues ==
    TextsUpTo({"a", " "}, MaxQuery) \cup {<<"A">>, <<"a", "A">>, <<"A", " ", "a">>}

ColumnKeys == {"Show", "Client"}
CellValues == {Undefined, Defined(<<>>), Defined(<<"a">>), Defined(<<"A">>),
               Defined(<<"a", "A">>), Defined(<<"<">>)}
NullSearchRow == [isNull |-> TRUE, cells |-> [k \in ColumnKeys |-> Undefined]]
SearchRows == {NullSearchRow} \cup {[isNull |-> FALSE, cells |-> c] : c \in [ColumnKeys -> CellValues]}
ColumnLists == {<<>>, <<"Show">>, <<"Client">>, <<"Show", "Client">>}

InitSearch ==
    /\ table = <<>>
    /\ refs \in RefOptions
    /\ now \in Nows
    /\ IdleCalls
    /\ Quiet
    /\ row = NoRow
    /\ out = NoOutput

\* line 514, the v-model of the search box: a search value is typed
SearchTyped(value) ==
    /\ search.call = "none"
    /\ search' = [search EXCEPT !.searchValue = value]
    /\ UNCHANGED <<table, refs, now, pc, args, data, fres, result, nIdent, nFetch, row, out,
                   identifierCall, showDetails,
                   urlSync, cards, schedule>>

\* lines 532-595, called with the search words of line 518
ApplyHighlightingCalled(text) ==
    /\ search.call = "none"
    /\ search' = [search EXCEPT !.call = "applyHighlighting", !.text = text,
                                !.row = <<>>, !.columns = <<>>,
                                !.result = applyHighlighting(text, searchWords)]
    /\ UNCHANGED <<table, refs, now, pc, args, data, fres, result, nIdent, nFetch, row, out,
                   identifierCall, showDetails,
                   urlSync, cards, schedule>>

\* lines 603-609
HighlightRawTextCalled(text) ==
    /\ search.call = "none"
    /\ search' = [search EXCEPT !.call = "highlightRawText", !.text = text,
                                !.row = <<>>, !.columns = <<>>,
                                !.result = highlightRawText(text)]
    /\ UNCHANGED <<table, refs, now, pc, args, data, fres, result, nIdent, nFetch, row, out,
                   identifierCall, showDetails,
                   urlSync, cards, schedule>>

\* lines 650-660
HighlightTextCalled(value) ==
    /\ search.call = "none"
    /\ search' = [search EXCEPT !.call = "highlightText", !.text = value,
                                !.row = <<>>, !.columns = <<>>,
                                !.result = highlightText(value)]
    /\ UNCHANGED <<table, refs, now, pc, args, data, fres, result, nIdent, nFetch, row, out,
                   identifierCall, showDetails,
                   urlSync, cards, schedule>>

\* lines 617-642 with an active search, from the plain text of line 634 on
HighlightHtmlContentCalled(plainText) ==
    /\ hasActiveSearch
    /\ search.call = "none"
    /\ search' = [search EXCEPT !.call = "highlightHtmlContent", !.text = plainText,
                                !.row = <<>>, !.columns = <<>>,
                                !.result = highlightPlainText(plainText)]
    /\ UNCHANGED <<table, refs, now, pc, args, data, fres, result, nIdent, nFetch, row, out,
                   identifierCall, showDetails,
                   urlSync, cards, schedule>>

\* lines 688-701
MatchesRowCalled(r, visibleColumns) ==
    /\ search.call = "none"
    /\ search' = [search EXCEPT !.call = "matchesRow", !.text = <<>>,
                                !.row = r, !.columns = visibleColumns,
                                !.result = matchesRow(r, visibleColumns)]
    /\ UNCHANGED <<table, refs, now, pc, args, data, fres, result, nIdent, nFetch, row, out,
                   identifierCall, showDetails,
                   urlSync, cards, schedule>>

\* the caller has taken the returned value
ResultTaken ==
    /\ search.call # "none"
    /\ search' = [NoSearch EXCEPT !.searchValue = search.searchValue]
    /\ UNCHANGED <<table, refs, now, pc, args, data, fres, result, nIdent, nFetch, row, out,
                   identifierCall, showDetails,
                   urlSync, cards, schedule>>

NextSearch ==
    \/ \E value \in SearchValues : SearchTyped(value)
    \/ \E text \in Texts : ApplyHighlightingCalled(text)
    \/ \E text \in Texts : HighlightRawTextCalled(text)
    \/ \E value \in Texts : HighlightTextCalled(value)
    \/ \E plainText \in PlainTexts : HighlightHtmlContentCalled(plainText)
    \/ \E r \in SearchRows, visibleColumns \in ColumnLists : MatchesRowCalled(r, visibleColumns)
    \/ ResultTaken

SpecSearch == InitSearch /\ [][NextSearch]_vars

-----------------------------------------------------------------------------
(* Date inference on its own: getRowDate applied to one row *)

ProbeMonthDays == {<<1, 5>>, <<2, 19>>, <<12, 28>>}
ProbeCellYears == {NoYear, 2024, 2025}
ProbeRowYears == {NoYear, 2024, 2025}

ProbeCells ==
    {Blank} \cup {DateCell(md[1], md[2], y) : md \in ProbeMonthDays, y \in ProbeCellYears}

ProbeRows ==
    {Row(NG, LM, year, ship, sStart, sEnd, expReturn) :
        year \in ProbeRowYears, ship \in ProbeCells \cup {SpaceCell, TextCell},
        sStart \in ProbeCells,
        sEnd \in ProbeCells, expReturn \in ProbeCells}

InitDates ==
    /\ row \in ProbeRows
    /\ out = NoOutput
    /\ table = <<>>
    /\ refs \in RefOptions
    /\ now \in Nows
    /\ IdleCalls
    /\ Quiet

\* lines 75-96, as called at lines 132 and 171: the row has a Year there
RowDateRequested(column) ==
    /\ row.Year # NoYear
    /\ out' = [column |-> column, value |-> getRowDate(row, column)]
    /\ UNCHANGED <<table, refs, now, pc, args, data, fres, result, nIdent, nFetch, row,
                 identifierCall, showDetails, search,
                   urlSync, cards, schedule>>

\* lines 308-331: guessShipDate is called with the row, or with no row at all
ShipDateGuessed(isObject) ==
    /\ out' = [column |-> IF isObject THEN "guessShipDate" ELSE "guessShipDate(null)",
               value |-> guessShipDate(row, isObject)]
    /\ UNCHANGED <<table, refs, now, pc, args, data, fres, result, nIdent, nFetch, row,
                   identifierCall, showDetails, search,
                   urlSync, cards, schedule>>

NextDates ==
    \/ \E column \in Columns : RowDateRequested(column)
    \/ \E isObject \in BOOLEAN : ShipDateGuessed(isObject)

SpecDates == InitDates /\ [][NextDates]_vars

-----------------------------------------------------------------------------
(* URL synchronisation of the search composable (lines 703-789) *)

\* most reset timers of clearSearch pending at once
MaxTimers == 2

\* one call of the navigation registry
RegistryRead(path) ==
    [fn |-> "getParametersForContainer", path |-> path, searchTerm |-> Undefined]
RegistryWrite(path, searchTerm) ==
    [fn |-> "updatePathParametersSilently", path |-> path, searchTerm |-> searchTerm]

\* navigationRegistry.getParametersForContainer(containerPath, path)?.searchTerm:
\* the searchTerm parameter the container has on the path
getParametersForContainer(path) == path.searchTerm

\* line 732: (value && value.trim()) ? value : undefined
UrlSearchTerm(value) ==
    IF value # <<>> /\ trim(value) # <<>> THEN Defined(value) ELSE Undefined

\* lines 722-735: updateUrlParameter(value); appContext?.currentPath is
\* undefined without an appContext
updateUrlParameter(u, value) ==
    IF ~u.syncWithUrl \/ ~u.navigationRegistry \/ ~u.containerPath THEN u
    ELSE [u EXCEPT !.searchTerm = UrlSearchTerm(value),
                   !.calls = Append(@, RegistryWrite(IF u.appContext THEN u.currentPath
                                                     ELSE NoPath,
                                                     UrlSearchTerm(value)))]

\* line 741: handleBlur returns at once
BlurReturns(u) == ~u.syncWithUrl \/ u._clearingSearch

\* the watcher callback assigning whatever the new path holds
WatchedValueAlways(value, newPath, oldPath) ==
    IF getParametersForContainer(newPath).defined
       /\ getParametersForContainer(newPath).text # <<>>
    THEN getParametersForContainer(newPath).text
    ELSE <<>>

\* lines 784-786: the search value after the watcher callback
WatchedValue(value, newPath, oldPath) ==
    IF getParametersForContainer(newPath) # getParametersForContainer(oldPath)
    THEN IF getParametersForContainer(newPath).defined
            /\ getParametersForContainer(newPath).text # <<>>
         THEN getParametersForContainer(newPath).text
         ELSE <<>>
    ELSE value

\* the options useSearch is created with (lines 505-511)
UrlOptions ==
    {[syncWithUrl |-> s, navigationRegistry |-> r, containerPath |-> c, appContext |-> a] :
        s, r, c, a \in BOOLEAN}

Paths == {NoPath, Path(1, Undefined), Path(1, Defined(<<>>)), Path(1, Defined(<<"a">>)),
          Path(2, Undefined), Path(2, Defined(<<"a">>))}

UrlValues == {<<>>, <<" ">>, <<"a">>, <<"b">>}

Created(o, path) ==
    [NoUrlSync EXCEPT !.syncWithUrl = o.syncWithUrl,
                      !.navigationRegistry = o.navigationRegistry,
                      !.containerPath = o.containerPath,
                      !.appContext = o.appContext,
                      !.currentPath = path,
                      !.searchTerm = path.searchTerm]

InitUrl ==
    /\ \E o \in UrlOptions :
          \E path \in (IF o.appContext THEN Paths ELSE {NoPath}) : urlSync = Created(o, path)
    /\ QuietCalls
    /\ search = NoSearch
    /\ cards = NoCards
    /\ schedule = NoSchedule
    /\ table = <<>>
    /\ refs \in RefOptions
    /\ now \in Nows
    /\ IdleCalls
    /\ row = NoRow
    /\ out = NoOutput

\* what an event leaves of the previous one
Event(u, name) == [u EXCEPT !.last = name, !.calls = <<>>, !.oldPath = NoPath]

\* line 514, the v-model of the search box: the search value is assigned
ValueAssigned(value) ==
    /\ value # search.searchValue
    /\ search' = [search EXCEPT !.searchValue = value]
    /\ urlSync' = Event(urlSync, "assigned")
    /\ UNCHANGED <<table, refs, now, pc, args, data, fres, result, nIdent, nFetch, row, out,
                   identifierCall, showDetails, cards, schedule>>

\* lines 706-716: clearSearch
ClearSearchCalled ==
    /\ urlSync.timers < MaxTimers
    /\ search' = [search EXCEPT !.searchValue = <<>>]
    /\ urlSync' =
          LET cleared == [Event(urlSync, "clearSearch") EXCEPT !._clearingSearch = TRUE,
                                                               !.timers = @ + 1]
          IN  IF urlSync.syncWithUrl THEN updateUrlParameter(cleared, <<>>) ELSE cleared
    /\ UNCHANGED <<table, refs, now, pc, args, data, fres, result, nIdent, nFetch, row, out,
                   identifierCall, showDetails, cards, schedule>>

\* lines 713-715: the reset timer of one clearSearch call fires
ResetTimerFired ==
    /\ urlSync.timers > 0
    /\ urlSync' = [Event(urlSync, "resetTimer") EXCEPT !._clearingSearch = FALSE,
                                                      !.timers = @ - 1]
    /\ UNCHANGED <<table, refs, now, pc, args, data, fres, result, nIdent, nFetch, row, out,
                   identifierCall, showDetails, search, cards, schedule>>

\* lines 740-743: handleBlur
HandleBlurCalled ==
    /\ urlSync' =
          IF BlurReturns(urlSync) THEN Event(urlSync, "handleBlur")
          ELSE updateUrlParameter(Event(urlSync, "handleBlur"), search.searchValue)
    /\ UNCHANGED <<table, refs, now, pc, args, data, fres, result, nIdent, nFetch, row, out,
                   identifierCall, showDetails, search, cards, schedule>>

\* lines 722-735: updateUrlParameter called on its own
UpdateUrlParameterCalled(value) ==
    /\ urlSync' = updateUrlParameter(Event(urlSync, "updateUrlParameter"), value)
    /\ UNCHANGED <<table, refs, now, pc, args, data, fres, result, nIdent, nFetch, row, out,
                   identifierCall, showDetails, search, cards, schedule>>

\* lines 748-760: initializeFromUrl
InitializeFromUrlCalled ==
    IF ~urlSync.syncWithUrl \/ ~urlSync.navigationRegistry \/ ~urlSync.containerPath
       \/ ~urlSync.appContext \/ urlSync.currentPath = NoPath
    THEN /\ urlSync' = Event(urlSync, "initializeFromUrl")
         /\ UNCHANGED <<table, refs, now, pc, args, data, fres, result, nIdent, nFetch, row,
                        out, identifierCall, showDetails, search, cards, schedule>>
    ELSE /\ urlSync' = [Event(urlSync, "initializeFromUrl") EXCEPT
                            !.calls = <<RegistryRead(urlSync.currentPath)>>]
         /\ search' =
               IF getParametersForContainer(urlSync.currentPath).defined
                  /\ getParametersForContainer(urlSync.currentPath).text # <<>>
               THEN [search EXCEPT
                        !.searchValue = getParametersForContainer(urlSync.currentPath).text]
               ELSE search
         /\ UNCHANGED <<table, refs, now, pc, args, data, fres, result, nIdent, nFetch, row,
                        out, identifierCall, showDetails, cards, schedule>>

\* lines 765-789: setupUrlWatcher installs the watcher of appContext.currentPath,
\* or returns null
SetupUrlWatcherCalled ==
    /\ urlSync' = [Event(urlSync, "setupUrlWatcher") EXCEPT
                      !.watcher = @ \/ (urlSync.syncWithUrl /\ urlSync.appContext)]
    /\ UNCHANGED <<table, refs, now, pc, args, data, fres, result, nIdent, nFetch, row, out,
                   identifierCall, showDetails, search, cards, schedule>>

\* appContext.currentPath changes; lines 770-787: the watcher callback runs
\* when a watcher is installed
PathChanged(newPath) ==
    /\ urlSync.appContext
    /\ newPath # urlSync.currentPath
    /\ IF ~urlSync.watcher \/ urlSync.currentPath = NoPath \/ ~urlSync.navigationRegistry
          \/ ~urlSync.containerPath
       THEN /\ urlSync' = [Event(urlSync, "pathChanged") EXCEPT
                               !.currentPath = newPath, !.oldPath = urlSync.currentPath]
            /\ UNCHANGED search
       ELSE /\ urlSync' = [Event(urlSync, "pathChanged") EXCEPT
                               !.currentPath = newPath, !.oldPath = urlSync.currentPath,
                               !.calls = <<RegistryRead(newPath),
                                           RegistryRead(urlSync.currentPath)>>]
            /\ search' = [search EXCEPT
                             !.searchValue = WatchedValue(@, newPath, urlSync.currentPath)]
    /\ UNCHANGED <<table, refs, now, pc, args, data, fres, result, nIdent, nFetch, row, out,
                   identifierCall, showDetails, cards, schedule>>

NextUrl ==
    \/ \E value \in UrlValues : ValueAssigned(value)
    \/ ClearSearchCalled
    \/ ResetTimerFired
    \/ HandleBlurCalled
    \/ \E value \in UrlValues : UpdateUrlParameterCalled(value)
    \/ InitializeFromUrlCalled
    \/ SetupUrlWatcherCalled
    \/ \E newPath \in Paths : PathChanged(newPath)

SpecUrl == InitUrl /\ [][NextUrl]_vars

-----------------------------------------------------------------------------
(* CardsComponent.visibleCards (cardsComponent.js, lines 111-142) *)

\* most items passed to the component
MaxCards == 2

\* a field of an item: null, undefined (the item has no such key) or a text
NullField == [kind |-> "null", text |-> <<>>]
UndefinedField == [kind |-> "undefined", text |-> <<>>]
TextField(text) == [kind |-> "text", text |-> text]

\* String(field)
FieldString(field) ==
    IF field.kind = "null" THEN <<"n", "u", "l", "l">>
    ELSE IF field.kind = "undefined" THEN <<"u", "n", "d", "e", "f", "i", "n", "e", "d">>
    ELSE field.text

\* an element of items: null, or an object with the three fields searched
NullCard ==
    [isNull |-> TRUE, title |-> UndefinedField, content |-> UndefinedField,
     contentFooter |-> UndefinedField]
Card(title, content, contentFooter) ==
    [isNull |-> FALSE, title |-> title, content |-> content, contentFooter |-> contentFooter]

\* line 135 without the test for null and undefined
fieldMatchesStringified(field, word) ==
    includes(toLowerCase(FieldString(field)), toLowerCase(word))

\* line 135
fieldMatches(field, word) ==
    field.kind = "text" /\ includes(toLowerCase(FieldString(field)), toLowerCase(word))

\* lines 122-138: the filter callback
cardMatches(r, words) ==
    IF r.isNull THEN FALSE
    ELSE \A w \in 1..Len(words) :
            \E field \in {r.title, r.content, r.contentFooter} : fieldMatches(field, words[w])

\* lines 111-142
visibleCards ==
    IF ~cards.isArray THEN <<>>
    ELSE IF hasActiveSearch /\ cards.hideCardsOnSearch
    THEN SelectSeq(SelectSeq(cards.items, LAMBDA r : ~r.isNull),
                   LAMBDA r : cardMatches(r, searchWords))
    ELSE SelectSeq(cards.items, LAMBDA r : ~r.isNull)

CardItems ==
    {NullCard,
     Card(TextField(<<"a">>), UndefinedField, UndefinedField),
     Card(TextField(<<"A">>), NullField, TextField(<<"b">>)),
     Card(NullField, UndefinedField, UndefinedField),
     Card(TextField(<<"n", "u", "l", "l">>), TextField(<<"b", "a">>), NullField),
     Card(UndefinedField, TextField(<<>>), TextField(<<"B">>))}

CardSearchValues ==
    {<<>>, <<" ">>, <<"a">>, <<"A">>, <<"a", " ", "B">>, <<"n", "u", "l", "l">>,
     <<"u", "n", "d", "e", "f", "i", "n", "e", "d">>, <<"a", "b">>}

InitCards ==
    /\ cards = NoCards
    /\ QuietCalls
    /\ search = NoSearch
    /\ urlSync = NoUrlSync
    /\ schedule = NoSchedule
    /\ table = <<>>
    /\ refs \in RefOptions
    /\ now \in Nows
    /\ IdleCalls
    /\ row = NoRow
    /\ out = NoOutput

\* lines 9-15: the parent passes items, an array or (against the declared
\* type) something else
ItemsPassed(isArray, items) ==
    /\ cards' = [cards EXCEPT !.isArray = isArray, !.items = items]
    /\ cards' # cards
    /\ UNCHANGED <<table, refs, now, pc, args, data, fres, result, nIdent, nFetch, row, out,
                   identifierCall, showDetails, search, urlSync, schedule>>

\* lines 68-71: the parent passes hideCardsOnSearch
HideCardsOnSearchPassed(hide) ==
    /\ hide # cards.hideCardsOnSearch
    /\ cards' = [cards EXCEPT !.hideCardsOnSearch = hide]
    /\ UNCHANGED <<table, refs, now, pc, args, data, fres, result, nIdent, nFetch, row, out,
                   identifierCall, showDetails, search, urlSync, schedule>>

NextCards ==
    \/ \E items \in TextsUpTo(CardItems, MaxCards) : ItemsPassed(TRUE, items)
    \/ ItemsPassed(FALSE, <<>>)
    \/ \E hide \in BOOLEAN : HideCardsOnSearchPassed(hide)
    \/ \E value \in CardSearchValues : SearchTyped(value)

SpecCards == InitCards /\ [][NextCards]_vars

-----------------------------------------------------------------------------
(* ScheduleContent: the filter and its two derived values (lines 885-966) *)

\* most text filters of a selection
MaxTextFilters == 2

\* a date filter as the selection carries it
ScheduleDateFilter(column, value, type) == [column |-> column, value |-> value, type |-> type]

\* a text filter of a selection: a missing column, value or type is "", values
\* is an array or missing
TextFilter(column, values, value, type) ==
    [column |-> column, values |-> values, value |-> value, type |-> type]

\* normalizeFilterValues(textFilter) of data_management/utils/helpers.js: the
\* values of the filter as an array
normalizeFilterValues(textFilter) ==
    IF textFilter.values.given THEN textFilter.values.list
    ELSE IF textFilter.value # "" THEN <<textFilter.value>>
    ELSE <<>>

\* filter.searchParams[column] = entry: an object keeps the place of a key it
\* already has
RECURSIVE setParam(_, _)
setParam(params, entry) ==
    IF params = <<>> THEN <<entry>>
    ELSE IF Head(params).column = entry.column THEN <<entry>> \o Tail(params)
    ELSE <<Head(params)>> \o setParam(Tail(params), entry)

\* lines 956-961: forEach over the text filters from position i
RECURSIVE applyTextFilters(_, _, _)
applyTextFilters(params, textFilters, i) ==
    IF i > Len(textFilters) THEN params
    ELSE IF textFilters[i].column # ""
            /\ (textFilters[i].values.given \/ textFilters[i].value # "")
    THEN applyTextFilters(
             setParam(params,
                      [column |-> textFilters[i].column,
                       values |-> normalizeFilterValues(textFilters[i]),
                       type |-> IF textFilters[i].type # "" THEN textFilters[i].type
                                ELSE "contains"]),
             textFilters, i + 1)
    ELSE applyTextFilters(params, textFilters, i + 1)

\* applySavedSearch starting from the filter in place instead of a new object
applySavedSearchOnto(filter, searchData) ==
    [isNull |-> FALSE,
     hasDateFilters |-> filter.hasDateFilters
                        \/ (searchData.dateFilters.given
                            /\ Len(searchData.dateFilters.list) > 0),
     dateFilters |-> IF searchData.dateFilters.given /\ Len(searchData.dateFilters.list) > 0
                     THEN searchData.dateFilters.list
                     ELSE filter.dateFilters,
     hasSearchParams |-> TRUE,
     searchParams |-> IF searchData.textFilters.given
                      THEN applyTextFilters(<<>>, searchData.textFilters.list, 1)
                      ELSE <<>>]

\* lines 943-966: the filter applySavedSearch assigns
applySavedSearch(filter, searchData) ==
    [isNull |-> FALSE,
     hasDateFilters |-> searchData.dateFilters.given /\ Len(searchData.dateFilters.list) > 0,
     dateFilters |-> IF searchData.dateFilters.given /\ Len(searchData.dateFilters.list) > 0
                     THEN searchData.dateFilters.list
                     ELSE <<>>,
     hasSearchParams |-> TRUE,
     searchParams |-> IF searchData.textFilters.given
                      THEN applyTextFilters(<<>>, searchData.textFilters.list, 1)
                      ELSE <<>>]

\* lines 922-941: the filter handleSearchSelected leaves
handleSearchSelected(filter, searchData) ==
    IF searchData.kind = "null" THEN NoFilter
    ELSE IF searchData.kind = "year"
    THEN [isNull |-> FALSE,
          hasDateFilters |-> TRUE,
          dateFilters |-> IF searchData.dateFilters.given THEN searchData.dateFilters.list
                          ELSE <<ScheduleDateFilter("Show Date", searchData.startDate, "after"),
                                 ScheduleDateFilter("Show Date", searchData.endDate, "before")>>,
          hasSearchParams |-> FALSE,
          searchParams |-> <<>>]
    ELSE applySavedSearch(filter, searchData)

\* lines 892-896: the computed dateFilter, the filter without its searchParams
NullDateFilter == [isNull |-> TRUE, dateFilters |-> <<>>]
dateFilter ==
    IF schedule.filter.isNull THEN NullDateFilter
    ELSE IF schedule.filter.hasDateFilters
    THEN [isNull |-> FALSE, dateFilters |-> schedule.filter.dateFilters]
    ELSE NullDateFilter

\* lines 897-899: the computed tableSearchParams
NullTableSearchParams == [isNull |-> TRUE, entries |-> <<>>]
tableSearchParams ==
    IF schedule.filter.isNull \/ ~schedule.filter.hasSearchParams THEN NullTableSearchParams
    ELSE [isNull |-> FALSE, entries |-> schedule.filter.searchParams]

DateFilterLists ==
    {NoArray, Array(<<>>), Array(<<ScheduleDateFilter("Ship", "2025-03-01", "after")>>)}

TextFilters ==
    {TextFilter("Show", Array(<<"a">>), "", ""),
     TextFilter("Show", NoArray, "b", "equals"),
     TextFilter("", NoArray, "c", ""),
     TextFilter("Client", NoArray, "", "contains"),
     TextFilter("Client", Array(<<>>), "", "")}

TextFilterLists ==
    {NoArray} \cup {Array(list) : list \in SeqsUpTo(TextFilters, MaxTextFilters)}

Selections ==
    {NoSelection}
    \cup {Selection("year", d, "2025-01-01", "2025-12-31", NoArray) : d \in DateFilterLists}
    \cup {Selection("saved", d, "", "", t) : d \in DateFilterLists, t \in TextFilterLists}

InitSchedule ==
    /\ schedule = NoSchedule
    /\ QuietCalls
    /\ search = NoSearch
    /\ urlSync = NoUrlSync
    /\ cards = NoCards
    /\ table = <<>>
    /\ refs \in RefOptions
    /\ now \in Nows
    /\ IdleCalls
    /\ row = NoRow
    /\ out = NoOutput

\* lines 922-941: ScheduleFilterSelect emits search-selected
SearchSelected(searchData) ==
    /\ schedule' = [filter |-> handleSearchSelected(schedule.filter, searchData),
                    searchData |-> searchData,
                    before |-> schedule.searchData.kind]
    /\ UNCHANGED <<table, refs, now, pc, args, data, fres, result, nIdent, nFetch, row, out,
                   identifierCall, showDetails, search, urlSync, cards>>

NextSchedule == \E searchData \in Selections : SearchSelected(searchData)

SpecSchedule == InitSchedule /\ [][NextSchedule]_vars

-----------------------------------------------------------------------------
(* Date inference: claims C7-C10, checked under SpecDates *)

ParsedShip == parseDate(row.Ship, TRUE, row.Year)
ParsedStart == parseDate(row.SStart, TRUE, row.Year)
ParsedEnd == parseDate(row.SEnd, TRUE, row.Year)
ParsedReturn == parseDate(row.ExpReturn, TRUE, row.Year)

\* C7: explicit fields take precedence over derived values: a Ship cell that
\* parses is the ship date, an Expected Return Date cell that parses is the
\* return date, an S. Start cell that parses is the show date, whatever the
\* other cells hold.
C7_ExplicitFieldsTakePrecedence ==
    /\ (out.column = "Ship" /\ ParsedShip # Null) => out.value = ParsedShip
    /\ (out.column = "Return" /\ ParsedReturn # Null) => out.value = ParsedReturn
    /\ (out.column = "Show Date" /\ ParsedStart # Null) => out.value = ParsedStart

\* an explicit Ship cell wins over a different date derivable from S. Start
C7_Witness ==
    /\ out.column = "Ship"
    /\ ParsedShip # Null
    /\ ParsedStart # Null
    /\ out.value = ParsedShip
    /\ ParsedShip # AddDays(ParsedStart, 0 - 14)
    /\ ParsedShip > ParsedStart

\* the ship date derived from a show date: lead days earlier, moved to the
\* row's year only if the moved date is still strictly before the show date
DerivedShip(showDate, lead) ==
    LET base  == AddDays(showDate, 0 - lead)
        moved == SetFullYear(base, row.Year)
    IN  IF GetFullYear(base) # row.Year /\ moved < showDate THEN moved ELSE base

\* C8: with no parseable Ship, the ship date is S. Start - 14 days (else
\* S. End - 21 days, else null), moved to the row's Year only when the moved
\* date stays strictly before the show date it was derived from; a derived ship
\* date is always strictly before that show date.
C8_DerivedShipDate ==
    (out.column = "Ship" /\ ParsedShip = Null) =>
        IF ParsedStart # Null
        THEN out.value = DerivedShip(ParsedStart, 14) /\ out.value < ParsedStart
        ELSE IF ParsedEnd # Null
        THEN out.value = DerivedShip(ParsedEnd, 21) /\ out.value < ParsedEnd
        ELSE out.value = Null

\* S. Start early in January of the row's year: the ship date stays in December
\* of the year before, because the same day in the row's year is after the show
C8_Witness ==
    /\ out.column = "Ship"
    /\ ParsedShip = Null
    /\ ParsedStart # Null
    /\ GetFullYear(ParsedStart) = row.Year
    /\ out.value = AddDays(ParsedStart, 0 - 14)
    /\ GetFullYear(out.value) = row.Year - 1

\* the derived ship date is moved into the row's year
C8_MovedReached ==
    /\ out.column = "Ship"
    /\ ParsedShip = Null
    /\ ParsedStart = Null
    /\ ParsedEnd # Null
    /\ out.value # AddDays(ParsedEnd, 0 - 21)
    /\ GetFullYear(out.value) = row.Year

\* the first available base of a derived return date
ReturnBase ==
    IF ParsedEnd # Null THEN AddDays(ParsedEnd, 10)
    ELSE IF ParsedStart # Null THEN AddDays(ParsedStart, 30)
    ELSE IF ParsedShip # Null THEN AddDays(ParsedShip, 30)
    ELSE Null

\* C9: with no parseable Expected Return Date, the return date is the first
\* available of S. End + 10 days, S. Start + 30 days, ship date + 30 days, put
\* into the row's Year whenever it falls in another year (no ordering check),
\* else null; a derived return date always lies in the row's Year.
C9_DerivedReturnDate ==
    (out.column = "Return" /\ ParsedReturn = Null) =>
        IF ReturnBase = Null THEN out.value = Null
        ELSE /\ out.value = IF GetFullYear(ReturnBase) = row.Year THEN ReturnBase
                            ELSE SetFullYear(ReturnBase, row.Year)
             /\ GetFullYear(out.value) = row.Year

\* S. End at the end of December of the row's year: S. End + 10 days falls in
\* January of the next year and is put back into the row's year
C9_Witness ==
    /\ out.column = "Return"
    /\ ParsedReturn = Null
    /\ ParsedEnd # Null
    /\ GetFullYear(ParsedEnd) = row.Year
    /\ GetFullYear(AddDays(ParsedEnd, 10)) = row.Year + 1
    /\ out.value = SetFullYear(AddDays(ParsedEnd, 10), row.Year)
    /\ out.value < ParsedEnd

\* C10: the show date is S. Start when it parses, otherwise the ship date plus
\* 10 days when a ship date is resolvable, otherwise null; a row with a null
\* show date fails every Show Date filter.
C10_ShowDate ==
    out.column = "Show Date" =>
        /\ out.value = IF ParsedStart # Null THEN ParsedStart
                       ELSE IF _calculateShipDate(row) # Null
                       THEN AddDays(_calculateShipDate(row), 10)
                       ELSE Null
        /\ out.value = Null =>
               \A type \in {"before", "after"}, filterDate \in {now, AddDays(now, 0 - 400)} :
                   ~PassesFilter(row, [column |-> "Show Date", type |-> type,
                                        value |-> OtherValue], filterDate)

\* no S. Start: the show date is estimated from a ship date derived from S. End
C10_Witness ==
    /\ out.column = "Show Date"
    /\ ParsedStart = Null
    /\ ParsedShip = Null
    /\ ParsedEnd # Null
    /\ out.value = AddDays(ParsedEnd, 10 - 21)

\* no S. Start and no ship date: the show date is null
C10_NullReached ==
    /\ out.column = "Show Date"
    /\ ParsedStart = Null
    /\ ParsedShip = Null
    /\ ParsedEnd = Null
    /\ ParsedReturn # Null
    /\ out.value = Null

-----------------------------------------------------------------------------
(* Overlap filter: claims C1-C5, checked under Spec *)

DateFiltersOf(c) == args[c].parameters.dateFilters

\* the three forms of a call without date filters
WithoutDateFilters(c) ==
    \/ args[c].parameters.isNull
    \/ ~args[c].parameters.hasDateFilters
    \/ Len(args[c].parameters.dateFilters) = 0

Returned(c) == pc[c] = "done"

\* row r satisfies filter i of invocation c against the date resolved for it
Satisfies(c, r, i) ==
    LET rowDate    == getRowDate(r, DateFiltersOf(c)[i].column)
        filterDate == fres[c][i].date
    IN  /\ rowDate # Null
        /\ filterDate # Null
        /\ DateFiltersOf(c)[i].type = "after" => rowDate >= filterDate
        /\ DateFiltersOf(c)[i].type = "before" => rowDate <= filterDate

\* C1: with at least one date filter, every returned row satisfies every
\* filter (row date and filter date non-null, row date >= filter date for
\* 'after', <= for 'before'); so one unresolvable filter empties the result.
C1_ResultSatisfiesEveryFilter ==
    \A c \in Calls :
        (Returned(c) /\ ~WithoutDateFilters(c)) =>
            /\ \A k \in 1..Len(result[c]) : \A i \in 1..Len(DateFiltersOf(c)) :
                   Satisfies(c, result[c][k], i)
            /\ (\E i \in 1..Len(DateFiltersOf(c)) : fres[c][i].date = Null) =>
                   result[c] = <<>>

\* two filters, one of them an identifier filter, and a row that passes both
C1_Witness ==
    \E c \in Calls :
        /\ Returned(c)
        /\ Len(DateFiltersOf(c)) = 2
        /\ DateFiltersOf(c)[1].type = "before"
        /\ DateFiltersOf(c)[1].value.kind = "string"
        /\ DateFiltersOf(c)[2].type = "after"
        /\ Len(result[c]) >= 1
        /\ Len(result[c]) < Len(data[c])

\* C2: the year-span step is only a pre-filter: every (search-filtered) row
\* whose inferred dates satisfy all date filters is in the result.
C2_YearSpanRemovesNoSatisfyingRow ==
    \A c \in Calls :
        (Returned(c) /\ ~WithoutDateFilters(c)) =>
            \A k \in 1..Len(data[c]) :
                (\A i \in 1..Len(DateFiltersOf(c)) : Satisfies(c, data[c][k], i)) =>
                    \E j \in 1..Len(result[c]) : result[c][j] = data[c][k]

\* the rows of invocation c that resolveFilterValue can match with text t
IdentifierMatches(c, t) ==
    {k \in 1..Len(data[c]) :
        /\ HasIdentifierFields(data[c][k])
        /\ computeIdentifier(computeIdentifierReferenceData(refs.clients, refs.shows),
                             data[c][k].Show, data[c][k].Client, data[c][k].Year) = t}

FirstOf(S) == CHOOSE k \in S : \A l \in S : k <= l

C4_NoDateFiltersReturnsLoadedRows ==
    \A c \in Calls :
        (Returned(c) /\ WithoutDateFilters(c)) =>
            /\ result[c] = IF args[c].searchParams.isNull THEN table
                           ELSE searchFilter(table, args[c].searchParams.entries)
            /\ nIdent[c] = 0
            /\ nFetch[c] = 0

\* an empty dateFilters array and a search that drops one of two rows
C4_Witness ==
    \E c \in Calls :
        /\ Returned(c)
        /\ args[c].parameters.hasDateFilters
        /\ Len(args[c].parameters.dateFilters) = 0
        /\ ~args[c].searchParams.isNull
        /\ Len(table) = 2
        /\ Len(result[c]) = 1
        /\ result[c][1] = table[2]

\* C5: the rows are tested in one step that starts only when every filter date
\* is resolved, and it tests every row against those dates, which no later
\* step changes.
C5_ResolutionCompletesBeforeRowsAreTested ==
    [][\A c \in Calls :
          /\ (pc[c] = "resolving" /\ pc'[c] = "done") =>
                 /\ Len(fres[c]) = Len(DateFiltersOf(c))
                 /\ \A i \in 1..Len(fres[c]) : fres[c][i].stage = "done"
                 /\ fres'[c] = fres[c]
                 /\ result'[c] = FilterRows(data[c], DateFiltersOf(c), FilterDates(fres[c]))
          /\ (pc[c] = "resolving" /\ pc'[c] = "resolving") => result'[c] = <<>>
          /\ pc[c] = "done" => (fres'[c] = fres[c] /\ result'[c] = result[c])]_vars

\* both filters needed reference fetches for two rows before the rows were tested
C5_Witness ==
    \E c \in Calls :
        /\ Returned(c)
        /\ Len(DateFiltersOf(c)) = 2
        /\ nFetch[c] >= 6
        /\ Len(result[c]) >= 1

-----------------------------------------------------------------------------
(* Concurrent invocations: claim C6, checked under SpecConcurrent *)

\* resolveFilterValue run to its end without interruption
RECURSIVE ResolvedAlone(_, _, _)
ResolvedAlone(filter, dat, st) ==
    IF st.stage = "done" THEN st.date
    ELSE ResolvedAlone(filter, dat,
            IdentifierComputed(filter, dat, st.idx,
                IF st.stage = "blank" THEN <<>>
                ELSE computeIdentifier(
                         computeIdentifierReferenceData(refs.clients, refs.shows),
                         dat[st.idx].Show, dat[st.idx].Client, dat[st.idx].Year)))

\* what getOverlappingShows returns for arguments a when it runs alone
ResultAlone(a) ==
    LET dat == IF a.searchParams.isNull THEN table
               ELSE searchFilter(table, a.searchParams.entries)
        fs  == a.parameters.dateFilters
    IN  IF a.parameters.isNull \/ ~a.parameters.hasDateFilters \/ Len(fs) = 0 THEN dat
        ELSE FilterRows(dat, fs,
                 [i \in 1..Len(fs) |->
                     ResolvedAlone(fs[i], dat, resolveFilterValue(fs[i], dat, now))])

CallState(c) == <<pc[c], args[c], data[c], fres[c], result[c], nIdent[c], nFetch[c]>>

-----------------------------------------------------------------------------
(* guessShipDate: claim C11, checked under SpecDates *)

DigitValue(ch) == CHOOSE k \in 0..9 : Digits[k + 1] = ch
IsDigit(ch) == \E k \in 0..9 : Digits[k + 1] = ch

\* t reads MM/DD/YYYY and names the calendar day of date
ReadsAsDayOf(t, date) ==
    /\ Len(t) = 10
    /\ t[3] = "/" /\ t[6] = "/"
    /\ \A i \in {1, 2, 4, 5, 7, 8, 9, 10} : IsDigit(t[i])
    /\ DaysFromCivil(1000 * DigitValue(t[7]) + 100 * DigitValue(t[8])
                        + 10 * DigitValue(t[9]) + DigitValue(t[10]),
                     10 * DigitValue(t[1]) + DigitValue(t[2]),
                     10 * DigitValue(t[4]) + DigitValue(t[5])) = date \div TicksPerDay

\* C11: guessShipDate returns a Ship cell that is not blank after trimming as
\* it is; for a blank Ship it returns the inferred ship date as MM/DD/YYYY, or
\* null when there is none; it never throws.
C11_GuessShipDate ==
    /\ out.column = "guessShipDate(null)" => out.value.kind = "null"
    /\ out.column = "guessShipDate" =>
          IF row.Ship.kind \in {"date", "text"}
          THEN out.value.kind = "cell" /\ out.value.cell = row.Ship
          ELSE IF _calculateShipDate(row) = Null THEN out.value.kind = "null"
          ELSE /\ out.value.kind = "text"
               /\ ReadsAsDayOf(out.value.text, _calculateShipDate(row))

\* a Ship cell of white space only: the date inferred from S. Start is returned
C11_Witness ==
    /\ out.column = "guessShipDate"
    /\ row.Ship.kind = "space"
    /\ row.SStart.kind = "date"
    /\ out.value.kind = "text"
    /\ out.value.text[1] = "1" /\ out.value.text[2] = "2"

\* a Ship cell that names no date is returned as it is
C11_TextReached ==
    /\ out.column = "guessShipDate"
    /\ row.Ship.kind = "text"
    /\ out.value.kind = "cell"
    /\ out.value.cell = TextCell

-----------------------------------------------------------------------------
(* The [ship, return] window: claim C20, checked under SpecDates *)

\* C20: whenever a row has both a ship date and a return date, the ship date is
\* not later than the return date; stated here for the rows of which both dates
\* are inferred, from S. Start or S. End.
C20_ShipNotAfterReturn ==
    (/\ out.column = "Return"
     /\ row.Ship = Blank
     /\ row.ExpReturn = Blank
     /\ out.value # Null
     /\ _calculateShipDate(row) # Null) =>
        _calculateShipDate(row) <= out.value

-----------------------------------------------------------------------------
(* computeIdentifier: claims C12 and C13, checked under SpecIdentifier *)

OnlySpaces(t) == \A i \in 1..Len(t) : t[i] = " "
Spaces(n) == [i \in 1..n |-> " "]

\* C12: for a blank show name computeIdentifier has returned '' as soon as it
\* is called, whatever the client name and the year, without fetching a
\* reference tab and without calling the fuzzy matcher.
C12_BlankShowNameReturnsAtOnce ==
    (identifierCall.pc # "idle" /\ OnlySpaces(identifierCall.showName)) =>
        /\ identifierCall.pc = "done"
        /\ identifierCall.result = <<>>
        /\ identifierCall.nFetch = 0
        /\ identifierCall.nMatch = 0

\* a show name of white space only, with a client the reference list knows
C12_Witness ==
    /\ identifierCall.pc = "done"
    /\ identifierCall.showName = <<" ", " ">>
    /\ identifierCall.clientName = LM
    /\ identifierCall.year = 2025
    /\ identifierCall.result = <<>>

\* the match of a name: the matcher's result, or the name itself when the
\* matcher throws
MatchOf(name, list) ==
    IF GetTopFuzzyMatch(name, list.names, list.abbrs).threw THEN name
    ELSE GetTopFuzzyMatch(name, list.names, list.abbrs).match

\* '<clientMatch> <year> <showMatch>' of the finished call, untrimmed
Untrimmed ==
    MatchOf(identifierCall.clientName,
            computeIdentifierReferenceData(refs.clients, refs.shows).clients)
    \o <<" ">>
    \o (IF identifierCall.year = NoYear THEN <<>> ELSE NumberText(identifierCall.year))
    \o <<" ">>
    \o MatchOf(identifierCall.showName,
               computeIdentifierReferenceData(refs.clients, refs.shows).shows)

\* t is u without its leading and trailing spaces
IsTrimOf(t, u) ==
    /\ t = <<>> \/ (t[1] # " " /\ t[Len(t)] # " ")
    /\ \E a, b \in 0..Len(u) : u = Spaces(a) \o t \o Spaces(b)

\* C13: for a show name that is not blank computeIdentifier returns the
\* trimmed '<clientMatch> <year> <showMatch>', each match being the matcher's
\* result or, when the matcher throws, the name as given; a missing year is an
\* empty segment; the call always returns.
C13_IdentifierComposed ==
    (identifierCall.pc = "done" /\ ~OnlySpaces(identifierCall.showName)) =>
        /\ IsTrimOf(identifierCall.result, Untrimmed)
        /\ identifierCall.year = NoYear =>
               ~includes(identifierCall.result, <<"u", "n", "d", "e", "f">>)
        /\ identifierCall.nFetch = 2

\* the matcher throws for the client and matches the show by its
\* abbreviation; the year is missing
C13_Witness ==
    /\ identifierCall.pc = "done"
    /\ identifierCall.showName = <<"N">>
    /\ identifierCall.clientName = <<"Q">>
    /\ identifierCall.year = NoYear
    /\ identifierCall.result = <<"Q", " ", " ", "N", "G">>

-----------------------------------------------------------------------------
(* Identifier lookups: claim C14, checked under SpecDetails *)

\* the rows of the table that have Show, Client and Year and whose identifier
\* is t
RowsNamed(t) ==
    {k \in 1..Len(table) :
        /\ table[k].Show # <<>>
        /\ table[k].Client # <<>>
        /\ table[k].Year # NoYear
        /\ computeIdentifier(computeIdentifierReferenceData(refs.clients, refs.shows),
                             table[k].Show, table[k].Client, table[k].Year) = t}

\* C14: getShowDetails returns the first row in table order that has Show,
\* Client and Year and whose identifier is the argument, null when there is
\* none, and null without any fetch for an empty identifier; an identifier
\* filter resolves to a date only from a row that has the three fields.
C14_LookupsSkipIncompleteRows ==
    /\ showDetails.pc = "done" =>
          IF showDetails.identifier = <<>>
          THEN ~showDetails.found /\ showDetails.nFetch = 0 /\ showDetails.nIdent = 0
          ELSE IF RowsNamed(showDetails.identifier) = {} THEN ~showDetails.found
          ELSE /\ showDetails.found
               /\ showDetails.result = table[FirstOf(RowsNamed(showDetails.identifier))]
    /\ \A i \in 1..Len(fres[1]) :
          (fres[1][i].stage = "done" /\ RowsNamed(DateFiltersOf(1)[i].value.text) = {}) =>
              fres[1][i].date = Null

\* the only row that would compute to the identifier has no Year: it is not
\* matched, and no reference tab was fetched for it
C14_Witness ==
    /\ showDetails.pc = "done"
    /\ showDetails.identifier = LM__CE
    /\ \E k \in 1..Len(table) : table[k].Year = NoYear /\ table[k].Show = CE
    /\ ~showDetails.found
    /\ showDetails.nFetch = 2

\* the second of two complete rows is the one returned
C14_FoundReached ==
    /\ showDetails.pc = "done"
    /\ showDetails.found
    /\ Len(table) = 2
    /\ showDetails.result = table[2]
    /\ showDetails.nFetch = 6

\* an identifier filter naming only the row without a Year resolves to null
C14_FilterReached ==
    /\ pc[1] = "done"
    /\ Len(fres[1]) = 1
    /\ DateFiltersOf(1)[1].value.text = LM__CE
    /\ \E k \in 1..Len(table) : table[k].Year = NoYear /\ table[k].Show = CE
    /\ fres[1][1].date = Null

-----------------------------------------------------------------------------
(* Row matching: claims C15 and C16, checked under SpecSearch *)

\* word is a case-insensitive substring of text
ContainsIgnoringCase(text, word) ==
    \E i \in 0..(Len(text) - Len(word)) :
        \A k \in 1..Len(word) : toLowerCase(<<text[i + k]>>) = toLowerCase(<<word[k]>>)

\* C15: with an active search matchesRow is true iff every search word is a
\* case-insensitive substring of the stringified value of at least one of the
\* given columns, whatever the letter case of the typed words.
C15_MatchesRowAndOr ==
    (search.call = "matchesRow" /\ ~OnlySpaces(search.searchValue) /\ ~search.row.isNull) =>
        search.result =
            \A w \in 1..Len(searchWords) : \E c \in 1..Len(search.columns) :
                ContainsIgnoringCase(Stringified(search.row.cells[search.columns[c]]),
                                     searchWords[w])

\* C16: when the search value is empty or white space only, matchesRow is true
\* for every row argument and every column list.
C16_NoWordsMatchesEveryRow ==
    (search.call = "matchesRow" /\ OnlySpaces(search.searchValue)) => search.result = TRUE

\* a search value of two spaces, no row at all and no column
C16_Witness ==
    /\ search.call = "matchesRow"
    /\ search.searchValue = <<" ", " ">>
    /\ search.row.isNull
    /\ search.columns = <<>>
    /\ search.result = TRUE

-----------------------------------------------------------------------------
(* Highlighting: claims C17, C18 and C19, checked under SpecSearch *)

\* the positions of the text (from 0) inside a case-insensitive occurrence of
\* one of the words
InsideAnOccurrence(text, words) ==
    {p \in 0..(Len(text) - 1) :
        \E w \in 1..Len(words) : \E i \in 0..(Len(text) - Len(words[w])) :
            /\ i <= p /\ p < i + Len(words[w])
            /\ \A k \in 1..Len(words[w]) :
                   toLowerCase(<<text[i + k]>>) = toLowerCase(<<words[w][k]>>)}

InsideASpan(spans) ==
    {p \in 0..MaxText : \E k \in 1..Len(spans) : spans[k].start <= p /\ p < spans[k].end}

\* C17: for a text and a non-empty word list, the highlight spans cover exactly
\* the characters inside some case-insensitive occurrence of some word, and
\* they are in ascending order with an unhighlighted character between any two.
C17_SpansCoverEveryOccurrence ==
    (search.call = "applyHighlighting" /\ search.text # <<>> /\ Len(searchWords) > 0) =>
        /\ InsideASpan(mergedMatches(search.text, searchWords))
               = InsideAnOccurrence(search.text, searchWords)
        /\ \A k \in 1..(Len(mergedMatches(search.text, searchWords)) - 1) :
               mergedMatches(search.text, searchWords)[k].end
                   < mergedMatches(search.text, searchWords)[k + 1].start

StartsWith(h, prefix) == Len(h) >= Len(prefix) /\ SubSeq(h, 1, Len(prefix)) = prefix
Drop(h, n) == SubSeq(h, n + 1, Len(h))

LineBreak == <<"<", "b", "r", ">">>

\* the output without its highlight markers, each <br> read as a newline
RECURSIVE WithoutMarkers(_)
WithoutMarkers(h) ==
    IF h = <<>> THEN <<>>
    ELSE IF StartsWith(h, MarkerOpen) THEN WithoutMarkers(Drop(h, Len(MarkerOpen)))
    ELSE IF StartsWith(h, MarkerClose) THEN WithoutMarkers(Drop(h, Len(MarkerClose)))
    ELSE IF StartsWith(h, LineBreak) THEN <<"\n">> \o WithoutMarkers(Drop(h, Len(LineBreak)))
    ELSE <<Head(h)>> \o WithoutMarkers(Tail(h))

Entities ==
    { [of |-> "&", as |-> <<"&", "a", "m", "p", ";">>],
      [of |-> "<", as |-> <<"&", "l", "t", ";">>],
      [of |-> ">", as |-> <<"&", "g", "t", ";">>],
      [of |-> "\"", as |-> <<"&", "q", "u", "o", "t", ";">>],
      [of |-> "'", as |-> <<"&", "#", "0", "3", "9", ";">>] }

\* no raw < > " ' and no & that does not begin an entity
OnlyEscapedMarkup(h) ==
    \A i \in 1..Len(h) :
        /\ h[i] \notin {"<", ">", "\"", "'"}
        /\ h[i] = "&" => \E en \in Entities : StartsWith(Drop(h, i - 1), en.as)

RECURSIVE Unescaped(_)
UnescapedEntity(h, en) == <<en.of>> \o Unescaped(Drop(h, Len(en.as)))

Unescaped(h) ==
    IF h = <<>> THEN <<>>
    ELSE IF \E en \in Entities : StartsWith(h, en.as)
    THEN UnescapedEntity(h, CHOOSE en \in Entities : StartsWith(h, en.as))
    ELSE <<Head(h)>> \o Unescaped(Tail(h))

\* a call that went through applyHighlighting or escapeHtml
HighlightingDone ==
    \/ search.call \in {"applyHighlighting", "highlightRawText", "highlightHtmlContent"}
    \/ search.call = "highlightText" /\ search.text # <<>> /\ ~OnlySpaces(search.searchValue)

C18_LineBreakReached ==
    /\ search.call = "highlightHtmlContent"
    /\ search.text = <<"a", "\n", "<">>
    /\ StartsWith(search.result, MarkerOpen \o <<"a">> \o MarkerClose \o LineBreak)

\* what escaping makes of one character
EscapedChar(ch) ==
    IF \E en \in Entities : en.of = ch THEN (CHOOSE en \in Entities : en.of = ch).as
    ELSE <<ch>>

RECURSIVE Escaped(_)
Escaped(text) == IF text = <<>> THEN <<>> ELSE EscapedChar(Head(text)) \o Escaped(Tail(text))

\* C19: with no search word or an empty text, applyHighlighting,
\* highlightRawText and highlightText return the HTML-escaped original text,
\* without any highlight marker.
C19_NothingToHighlightEscapes ==
    (/\ search.call \in {"applyHighlighting", "highlightRawText", "highlightText"}
     /\ (OnlySpaces(search.searchValue) \/ search.text = <<>>)) =>
        search.result = Escaped(search.text)

-----------------------------------------------------------------------------
(* Clearing the search: claim C21, checked under SpecUrl *)

\* URL synchronisation is switched on and has a registry and a container path
\* to work with
UrlSyncEnabled ==
    urlSync.syncWithUrl /\ urlSync.navigationRegistry /\ urlSync.containerPath

\* a handleBlur call made while the reset timer of some clearSearch call is
\* pending writes no URL parameter
BlurSuppressedWhileResetPending ==
    (UrlSyncEnabled /\ urlSync.last = "handleBlur" /\ urlSync.timers > 0)
        => urlSync.calls = <<>>

\* after clearSearch the search value is empty and the searchTerm parameter of
\* the URL is undefined, written by that call
ClearedAfterClearSearch ==
    (UrlSyncEnabled /\ urlSync.last = "clearSearch")
        => /\ search.searchValue = <<>>
           /\ urlSync.searchTerm = Undefined
           /\ Len(urlSync.calls) = 1
           /\ urlSync.calls[1].fn = "updatePathParametersSilently"
           /\ urlSync.calls[1].searchTerm = Undefined

\* C21: with URL synchronisation enabled, whatever the sequence of clearSearch,
\* handleBlur and reset-timer events: a handleBlur made while the reset timer
\* of any clearSearch call is still pending updates no URL parameter, and after
\* every clearSearch the search value is empty and the searchTerm parameter of
\* the URL has been set to undefined.
C21_ClearSearchSuppressesBlur ==
    /\ BlurSuppressedWhileResetPending
    /\ ClearedAfterClearSearch

-----------------------------------------------------------------------------
(* The registry is left alone: claim C22, checked under SpecUrl *)

\* without syncWithUrl no event writes the URL or installs a watcher
NoUrlEffectUnsynced ==
    ~urlSync.syncWithUrl =>
        /\ urlSync'.searchTerm = urlSync.searchTerm
        /\ urlSync'.watcher = urlSync.watcher
        /\ urlSync'.calls = <<>>

\* without syncWithUrl the search value changes by assignment or clearSearch
ValueChangesDirectlyUnsynced ==
    (~urlSync.syncWithUrl /\ search'.searchValue # search.searchValue) =>
        \/ urlSync'.last = "assigned"
        \/ urlSync'.last = "clearSearch" /\ search'.searchValue = <<>>

\* a change of path changes the search value only when the searchTerm
\* parameter of the new path differs from the one of the old path, and then to
\* the new parameter, or to '' when the new path has none
WatcherFollowsSearchTerm ==
    (urlSync.syncWithUrl /\ urlSync'.last = "pathChanged"
     /\ search'.searchValue # search.searchValue) =>
        /\ urlSync'.currentPath.searchTerm # urlSync.currentPath.searchTerm
        /\ search'.searchValue = urlSync'.currentPath.searchTerm.text

\* C22: a useSearch created with syncWithUrl false never reads from or writes
\* to the navigation registry, whatever the sequence of clearSearch,
\* handleBlur, updateUrlParameter, initializeFromUrl and setupUrlWatcher calls,
\* and its search value changes only by direct assignment or clearSearch; with
\* syncWithUrl true the URL watcher changes the search value only when the
\* searchTerm parameter differs between the old and the new path.
C22_RegistryUntouchedWithoutSync ==
    [][/\ NoUrlEffectUnsynced
       /\ ValueChangesDirectlyUnsynced
       /\ WatcherFollowsSearchTerm]_vars

\* a watcher has taken the search value 'a' from the new path, whose
\* searchTerm differs from the old path's, replacing the value 'b' typed
\* before; the registry was read for both paths
C22_Witness ==
    /\ urlSync.syncWithUrl
    /\ urlSync.watcher
    /\ urlSync.last = "pathChanged"
    /\ urlSync.oldPath.searchTerm = Undefined
    /\ urlSync.oldPath # NoPath
    /\ urlSync.currentPath.searchTerm = Defined(<<"a">>)
    /\ search.searchValue = <<"a">>
    /\ Len(urlSync.calls) = 2

\* every call was made on a useSearch without syncWithUrl, a path changed
\* under it, and nothing reached the registry: the search value was typed and
\* cleared, the URL still has its searchTerm
C22_WitnessUnsynced ==
    /\ ~urlSync.syncWithUrl
    /\ urlSync.navigationRegistry
    /\ urlSync.containerPath
    /\ urlSync.appContext
    /\ urlSync.last = "handleBlur"
    /\ urlSync.timers > 0
    /\ urlSync.searchTerm = Defined(<<"a">>)
    /\ urlSync.currentPath = Path(2, Undefined)
    /\ search.searchValue = <<"b">>
    /\ ~urlSync.watcher

-----------------------------------------------------------------------------
(* The cards shown: claim C23, checked under SpecCards *)

\* the elements of s at the positions of I, in the order of s
RECURSIVE SubList(_, _, _)
SubList(s, I, i) ==
    IF i > Len(s) THEN <<>>
    ELSE (IF i \in I THEN <<s[i]>> ELSE <<>>) \o SubList(s, I, i + 1)

\* the texts of the fields of an item that are neither null nor undefined
FieldTexts(r) ==
    {field.text : field \in {f \in {r.title, r.content, r.contentFooter} : f.kind = "text"}}

\* the item at position i is kept
CardKept(i) ==
    /\ ~cards.items[i].isNull
    /\ (~OnlySpaces(search.searchValue) /\ cards.hideCardsOnSearch) =>
          \A w \in 1..Len(searchWords) :
              \E text \in FieldTexts(cards.items[i]) : ContainsIgnoringCase(text, searchWords[w])

\* C23: visibleCards is the items that are kept, in their order: with an active
\* search and hideCardsOnSearch an item is kept iff it is not null and every
\* search word is a case-insensitive substring of one of its title, content
\* and contentFooter that is neither null nor undefined; otherwise every item
\* that is not null is kept; items that is not an array gives the empty list.
C23_VisibleCards ==
    visibleCards =
        IF cards.isArray
        THEN SubList(cards.items, {i \in 1..Len(cards.items) : CardKept(i)}, 1)
        ELSE <<>>

\* searching for 'null': the item whose title is null is hidden, the item
\* whose title is the text 'null' is shown
C23_Witness ==
    /\ cards.isArray
    /\ cards.hideCardsOnSearch
    /\ search.searchValue = <<"n", "u", "l", "l">>
    /\ cards.items = <<Card(NullField, UndefinedField, UndefinedField),
                       Card(TextField(<<"n", "u", "l", "l">>), TextField(<<"b", "a">>),
                            NullField)>>
    /\ visibleCards = <<Card(TextField(<<"n", "u", "l", "l">>), TextField(<<"b", "a">>),
                             NullField)>>

\* two words found in different fields, in the other letter case; a null item
\* is dropped
C23_WitnessWords ==
    /\ cards.hideCardsOnSearch
    /\ search.searchValue = <<"a", " ", "B">>
    /\ cards.items = <<NullCard, Card(TextField(<<"A">>), NullField, TextField(<<"b">>))>>
    /\ visibleCards = <<Card(TextField(<<"A">>), NullField, TextField(<<"b">>))>>

-----------------------------------------------------------------------------
(* The schedule filter: claim C24, checked under SpecSchedule *)

\* a text filter with a column and a value
HasColumnAndValue(textFilter) ==
    textFilter.column # "" /\ (textFilter.values.given \/ textFilter.value # "")

\* the positions of the text filters of the last selection that have a column
\* and a value
Qualifying ==
    {i \in 1..Len(schedule.searchData.textFilters.list) :
        HasColumnAndValue(schedule.searchData.textFilters.list[i])}

\* the entry of searchParams is the one built from the text filter
BuiltFrom(entry, textFilter) ==
    /\ entry.column = textFilter.column
    /\ entry.values = normalizeFilterValues(textFilter)
    /\ entry.type = (IF textFilter.type = "" THEN "contains" ELSE textFilter.type)

\* the last selection has a dateFilters array that is not empty
SelectedDateFilters ==
    schedule.searchData.dateFilters.given /\ Len(schedule.searchData.dateFilters.list) > 0

NullSelected ==
    schedule.searchData.kind = "null" =>
        /\ schedule.filter = NoFilter
        /\ dateFilter.isNull
        /\ tableSearchParams.isNull

YearSelected ==
    schedule.searchData.kind = "year" =>
        /\ ~schedule.filter.isNull
        /\ ~schedule.filter.hasSearchParams
        /\ schedule.filter.searchParams = <<>>
        /\ schedule.filter.hasDateFilters
        /\ schedule.filter.dateFilters =
              (IF schedule.searchData.dateFilters.given
               THEN schedule.searchData.dateFilters.list
               ELSE <<[column |-> "Show Date", value |-> schedule.searchData.startDate,
                       type |-> "after"],
                      [column |-> "Show Date", value |-> schedule.searchData.endDate,
                       type |-> "before"]>>)
        /\ dateFilter = [isNull |-> FALSE, dateFilters |-> schedule.filter.dateFilters]
        /\ tableSearchParams.isNull

OtherSelected ==
    schedule.searchData.kind = "saved" =>
        /\ ~schedule.filter.isNull
        /\ schedule.filter.hasSearchParams
        /\ tableSearchParams = [isNull |-> FALSE, entries |-> schedule.filter.searchParams]
        /\ schedule.filter.hasDateFilters = SelectedDateFilters
        /\ schedule.filter.dateFilters =
              (IF SelectedDateFilters THEN schedule.searchData.dateFilters.list ELSE <<>>)
        /\ dateFilter.isNull = ~SelectedDateFilters
        /\ dateFilter.dateFilters = schedule.filter.dateFilters
        \* one entry for each column, each built from the last text filter of
        \* that column that has a column and a value
        /\ \A k, l \in 1..Len(schedule.filter.searchParams) :
              schedule.filter.searchParams[k].column = schedule.filter.searchParams[l].column
                  => k = l
        /\ \A k \in 1..Len(schedule.filter.searchParams) :
              \E i \in Qualifying :
                  /\ BuiltFrom(schedule.filter.searchParams[k],
                               schedule.searchData.textFilters.list[i])
                  /\ \A j \in Qualifying :
                        schedule.searchData.textFilters.list[j].column
                            = schedule.searchData.textFilters.list[i].column => j <= i
        /\ \A i \in Qualifying :
              \E k \in 1..Len(schedule.filter.searchParams) :
                  schedule.filter.searchParams[k].column
                      = schedule.searchData.textFilters.list[i].column

\* C24: after any sequence of handleSearchSelected calls the filter is
\* determined by the argument of the last call alone: a null selection leaves
\* filter, dateFilter and tableSearchParams null; a 'year' selection leaves a
\* filter with dateFilters only, the supplied ones or else Show Date after
\* startDate and Show Date before endDate; any other selection leaves
\* searchParams built from the text filters that have a column and a value and
\* from nothing else, and dateFilters only when the selection has a dateFilters
\* array that is not empty.
C24_FilterFromLastSelection ==
    /\ NullSelected
    /\ YearSelected
    /\ OtherSelected

\* a saved search without date filters selected after a year: the date filters
\* of the year are gone, and of its two text filters only the one with a
\* column made an entry
C24_Witness ==
    /\ schedule.before = "year"
    /\ schedule.searchData.kind = "saved"
    /\ ~schedule.searchData.dateFilters.given
    /\ schedule.searchData.textFilters =
          Array(<<TextFilter("", NoArray, "c", ""), TextFilter("Show", NoArray, "b", "equals")>>)
    /\ ~schedule.filter.hasDateFilters
    /\ dateFilter.isNull
    /\ schedule.filter.searchParams =
          <<[column |-> "Show", values |-> <<"b">>, type |-> "equals"]>>

\* a year selected after a saved search: no searchParams are left
C24_WitnessYear ==
    /\ schedule.before = "saved"
    /\ schedule.searchData.kind = "year"
    /\ ~schedule.searchData.dateFilters.given
    /\ tableSearchParams.isNull
    /\ Len(dateFilter.dateFilters) = 2

====
